---- MODULE Spec2Model ----
(***************************************************************************)
(* Model of the command-line tools of rust-solutions.                      *)
(*                                                                         *)
(* cutr (src/cutr/src/lib.rs): the range-list parser parse_pos, the         *)
(* extraction functions extract_chars, extract_bytes and extract_fields,   *)
(* and the program from its command line to its exit (main, get_config,    *)
(* run).                                                                   *)
(*                                                                         *)
(* A Rust string is a sequence of characters; a character is a one-letter  *)
(* TLA+ string, or "U+xxxx" for a character outside ASCII.  A formatted    *)
(* message (format!) is the sequence of its literal pieces and of the      *)
(* characters substituted into it.                                         *)
(***************************************************************************)
EXTENDS Integers, Sequences, FiniteSets, TLC

VARIABLES
    pc,         \* position of the function under analysis
    range,      \* parse_pos: the argument `range: &str`
    parsed,     \* parse_pos: the returned MyResult<PositionList>
    extract,    \* Config.extract: the Extract variant with its PositionList
    line,       \* run_line: the input line (characters)
    record,     \* extract_fields: the StringRecord (fields)
    extracted,  \* the value returned by extract_chars / _bytes / _fields
    args,       \* cutr: the ConfigArgs given on the command line
    config,     \* cutr: the Config built by get_config, if any
    file_idx,   \* cutr: run: the number of files of config.files done
    reader,     \* cutr: run_file: the open input, if any
    io_log,     \* cutr: the opens, reads and closes of input files so far
    stdout,     \* cutr: the lines written to standard output
    stderr,     \* cutr: the messages written to standard error
    exit_code,  \* cutr: the exit status of the process, once it has ended
    offset,     \* tailr: get_start_index: the argument `offset: &Offset`
    size,       \* tailr: get_start_index: the argument `size: u64`
    start_index, \* tailr: the value returned by get_start_index, if any
    offset_str, \* tailr: parse_offset: the argument `s: &str`
    grep_file,     \* grepr: find_lines: the lines the input `file` holds
    pattern,       \* grepr: find_lines: the argument `pattern: &Regex`
    invert_match,  \* grepr: find_lines: the argument `invert_match: bool`
    found_lines,   \* grepr: the value returned by find_lines, if any
    fs,            \* grepr: the paths that exist in the file system
    paths,         \* grepr: find_files: the argument `paths: &[String]`
    recursive,     \* grepr: find_files: the argument `recursive: bool`
    found_files,   \* grepr: the value returned by find_files, if any
    in_file,       \* uniqr: process_input: the lines the input `in_file` holds
    show_count,    \* uniqr: process_input: the argument `show_count: bool`
    output,        \* uniqr: process_input: what was written to `output`, if it ran
    lines1,        \* commr: print_line_diffs: the argument `lines1: &[String]`
    lines2,        \* commr: print_line_diffs: the argument `lines2: &[String]`
    comm_config,   \* commr: print_line_diffs: the argument `config: &Config`
    i1,            \* commr: print_line_diffs: the index into lines1
    i2,            \* commr: print_line_diffs: the index into lines2
    comm_log,      \* commr: the calls of print_col1, print_col2, print_col3 so far
    wc_args,       \* wcr: the flags and files given on the command line
    wc_config,     \* wcr: run: the argument `config: &Config`, once parsed
    wc_idx,        \* wcr: run: the number of files of config.files done
    num_files,     \* wcr: run: the local `num_files`
    totals,        \* wcr: run: the local `totals`, once run has begun
    wc_out,        \* wcr: the reports written to standard output
    wc_err,        \* wcr: the messages written to standard error
    fortune_file,  \* fortuner: the file at `file_path`: None if it cannot be opened, else its lines
    fortune_regex, \* fortuner: find_fortune_in_file: the argument `regex`
    fortune_idx,   \* fortuner: find_fortune_in_file: the number of lines `reader.lines()` has yielded
    fortune_record, \* fortuner: find_fortune_in_file: the local `record`
    match_found,   \* fortuner: find_fortune_in_file: the local `match_found`
    file_name_printed, \* fortuner: find_fortune_in_file: the local `file_name_printed`
    fortune_out,   \* fortuner: the lines written to standard output
    fortune_err,   \* fortuner: the lines written to standard error
    fortune_result \* fortuner: find_fortune_in_file: the value returned, once it has returned

funVars == <<range, parsed, extract, line, record, extracted>>

cutrVars == <<args, config, file_idx, reader, io_log, stdout, stderr, exit_code>>

tailrVars == <<offset, size, start_index, offset_str>>

greprVars == <<grep_file, pattern, invert_match, found_lines>>

findFilesVars == <<fs, paths, recursive, found_files>>

uniqrVars == <<in_file, show_count, output>>

commrVars == <<lines1, lines2, comm_config, i1, i2, comm_log>>

wcrVars == <<wc_args, wc_config, wc_idx, num_files, totals, wc_out, wc_err>>

fortunerVars == <<fortune_file, fortune_regex, fortune_idx, fortune_record, match_found, file_name_printed, fortune_out, fortune_err, fortune_result>>

vars == <<pc, range, parsed, extract, line, record, extracted,
          args, config, file_idx, reader, io_log, stdout, stderr, exit_code,
          offset, size, start_index, offset_str,
          grep_file, pattern, invert_match, found_lines,
          fs, paths, recursive, found_files,
          in_file, show_count, output,
          lines1, lines2, comm_config, i1, i2, comm_log,
          wc_args, wc_config, wc_idx, num_files, totals, wc_out, wc_err,
          fortune_file, fortune_regex, fortune_idx, fortune_record, match_found, file_name_printed, fortune_out, fortune_err, fortune_result>>

----------------------------------------------------------------------------
(* Bounds of the model *)

\* longest range-list text given to parse_pos
MaxSpecLen == 5
\* width in bits of the scaled-down usize
UsizeBits == 4
\* width in bits of the scaled-down u64
U64Bits == 4
\* longest text given to parse_offset
MaxOffsetLen == 3
\* most lines of an input of grepr's find_lines
MaxGrepLines == 3
\* deepest nesting of a path of the file system
MaxDepth == 3
\* most lines of an input of uniqr
MaxUniqLines == 3
\* most lines of each input of commr
MaxCommLines == 2
\* longest line (characters) and longest record (fields)
MaxLineLen == 3
\* most ranges in a PositionList
MaxRanges == 2
\* largest range end in a PositionList
MaxPos == 3
\* most input files on the command line of cutr
MaxFiles == 2
\* most lines read from one input file
MaxFileLines == 2

\* characters a range-list text is made of: ASCII digits, the hyphen, the
\* comma, a sign, a letter, and a decimal digit outside ASCII
\* (ARABIC-INDIC DIGIT THREE), which the regex class \d also matches
SpecAlphabet == {"0", "1", "2", "-", ",", "+", "a", "U+0663"}

\* characters of an input line: two of one byte and one of two bytes
\* (LATIN SMALL LETTER A WITH ACUTE)
LineAlphabet == {"b", "c", "U+00E1"}

\* fields of a record
FieldAlphabet == {"A", "B", "C"}

----------------------------------------------------------------------------
(* Rust values *)

\* Result<T, Box<dyn Error>>
Ok(v) == [ok |-> TRUE, val |-> v]
Err(e) == [ok |-> FALSE, err |-> e]

\* Option<T>
Some(v) == [some |-> TRUE, val |-> v]
None == [some |-> FALSE]

\* Range<usize>
Rng(s, e) == [start |-> s, end |-> e]

\* the program has not been started
CutrIdle ==
    /\ args = None
    /\ config = None
    /\ file_idx = 0
    /\ reader = None
    /\ io_log = <<>>
    /\ stdout = <<>>
    /\ stderr = <<>>
    /\ exit_code = None

\* the functions of cutr at rest
FunIdle ==
    /\ range = <<>>
    /\ parsed = None
    /\ extract = None
    /\ line = <<>>
    /\ record = <<>>
    /\ extracted = None

\* tailr at rest: get_start_index has no arguments yet
TailrIdle ==
    /\ offset = None
    /\ size = 0
    /\ start_index = None
    /\ offset_str = <<>>

\* grepr at rest: find_lines and find_files have no arguments yet
GreprIdle ==
    /\ grep_file = <<>>
    /\ pattern = <<>>
    /\ invert_match = FALSE
    /\ found_lines = None

\* grepr's find_files at rest
FindFilesIdle ==
    /\ fs = {}
    /\ paths = <<>>
    /\ recursive = FALSE
    /\ found_files = None

\* uniqr at rest: process_input has no arguments yet
UniqrIdle ==
    /\ in_file = <<>>
    /\ show_count = FALSE
    /\ output = None

\* commr at rest: print_line_diffs has no arguments yet
CommrIdle ==
    /\ lines1 = <<>>
    /\ lines2 = <<>>
    /\ comm_config = None
    /\ i1 = 0
    /\ i2 = 0
    /\ comm_log = <<>>

\* wcr at rest: main has not started
WcrIdle ==
    /\ wc_args = None
    /\ wc_config = None
    /\ wc_idx = 0
    /\ num_files = 0
    /\ totals = None
    /\ wc_out = <<>>
    /\ wc_err = <<>>

\* fortuner at rest: find_fortune_in_file has not been called
FortunerIdle ==
    /\ fortune_file = None
    /\ fortune_regex = <<>>
    /\ fortune_idx = 0
    /\ fortune_record = <<>>
    /\ match_found = FALSE
    /\ file_name_printed = FALSE
    /\ fortune_out = <<>>
    /\ fortune_err = <<>>
    /\ fortune_result = None

\* usize::MAX of the scaled-down usize
UsizeMax == 2 ^ UsizeBits - 1

AsciiDigits == <<"0", "1", "2", "3", "4", "5", "6", "7", "8", "9">>

IsAsciiDigit(c) == \E d \in 1..10 : AsciiDigits[d] = c

DigitVal(c) == (CHOOSE d \in 1..10 : AsciiDigits[d] = c) - 1

\* the regex class \d: every Unicode decimal digit (regex crate, Unicode on)
IsDigit(c) == IsAsciiDigit(c) \/ c = "U+0663"

\* format!("{}", n) for an unsigned n
RECURSIVE ToDecimal(_)
ToDecimal(n) ==
    IF n < 10 THEN <<AsciiDigits[n + 1]>>
    ELSE ToDecimal(n \div 10) \o <<AsciiDigits[(n % 10) + 1]>>

\* str::parse::<usize> on a non-empty text: left to right, an error at the
\* first character that is no ASCII digit or that overflows usize
RECURSIVE ParseUsizeFrom(_, _, _)
ParseUsizeFrom(s, i, acc) ==
    IF i > Len(s) THEN Ok(acc)
    ELSE IF ~IsAsciiDigit(s[i]) THEN Err(<<"invalid digit found in string">>)
    ELSE IF acc * 10 + DigitVal(s[i]) > UsizeMax
         THEN Err(<<"number too large to fit in target type">>)
    ELSE ParseUsizeFrom(s, i + 1, acc * 10 + DigitVal(s[i]))

----------------------------------------------------------------------------
(* cutr: parse_pos *)

\* str::split(','): the pieces between the commas, empty pieces included
RECURSIVE SplitComma(_)
SplitComma(s) ==
    IF \A i \in 1..Len(s) : s[i] # ","
    THEN <<s>>
    ELSE LET i == CHOOSE k \in 1..Len(s) :
                     s[k] = "," /\ \A j \in 1..(k - 1) : s[j] # ","
         IN <<SubSeq(s, 1, i - 1)>> \o SplitComma(SubSeq(s, i + 1, Len(s)))

AllDigits(s) == Len(s) >= 1 /\ \A i \in 1..Len(s) : IsDigit(s[i])

\* the length of the run of digits of s that starts at index from
DigitRun(s, from) ==
    CHOOSE k \in 0..Len(s) :
        /\ \A j \in from..(from + k - 1) : j <= Len(s) /\ IsDigit(s[j])
        /\ from + k > Len(s) \/ ~IsDigit(s[from + k])

\* mutant of re_captures: the pattern without its end anchor, "^(\d+)(-(\d+))?"
re_captures_NoEndAnchor(interval) ==
    LET d1 == DigitRun(interval, 1)
        d2 == IF d1 + 1 <= Len(interval) /\ interval[d1 + 1] = "-"
              THEN DigitRun(interval, d1 + 2) ELSE 0
    IN IF d1 = 0 THEN None
       ELSE IF d2 = 0 THEN Some([g1 |-> SubSeq(interval, 1, d1), g3 |-> None])
       ELSE Some([g1 |-> SubSeq(interval, 1, d1),
                  g3 |-> Some(SubSeq(interval, d1 + 2, d1 + 1 + d2))])

\* Regex "^(\d+)(-(\d+))?$" .captures(interval): groups 1 and 3
re_captures(interval) ==
    IF AllDigits(interval)
    THEN Some([g1 |-> interval, g3 |-> None])
    ELSE IF \E i \in 1..Len(interval) :
                /\ interval[i] = "-"
                /\ AllDigits(SubSeq(interval, 1, i - 1))
                /\ AllDigits(SubSeq(interval, i + 1, Len(interval)))
    THEN LET i == CHOOSE k \in 1..Len(interval) :
                     /\ interval[k] = "-"
                     /\ AllDigits(SubSeq(interval, 1, k - 1))
                     /\ AllDigits(SubSeq(interval, k + 1, Len(interval)))
         IN Some([g1 |-> SubSeq(interval, 1, i - 1),
                  g3 |-> Some(SubSeq(interval, i + 1, Len(interval)))])
    ELSE None

parse_index(match_obj) == ParseUsizeFrom(match_obj, 1, 0)

create_range_error(message) == Err(message)

create_interval_error(interval) ==
    create_range_error(<<"illegal list value: \"">> \o interval \o <<"\"">>)

\* mutant of interval_to_range: the start is left 1-based
interval_to_range_OneBased(interval) ==
    LET captures == re_captures(interval) IN
    IF ~captures.some THEN create_interval_error(interval)
    ELSE
    LET start == parse_index(captures.val.g1) IN
    IF ~start.ok THEN start
    ELSE IF start.val < 1 THEN create_interval_error(ToDecimal(start.val))
    ELSE IF ~captures.val.g3.some THEN Ok(Rng(start.val, start.val))
    ELSE
    LET end == parse_index(captures.val.g3.val) IN
    IF ~end.ok THEN end
    ELSE IF start.val < end.val THEN Ok(Rng(start.val, end.val))
    ELSE create_range_error(
            <<"First number in range (">> \o ToDecimal(start.val)
            \o <<") must be lower than second number (">>
            \o ToDecimal(end.val) \o <<")">>)

\* mutant of interval_to_range: the order of a range is not checked
interval_to_range_NoOrderCheck(interval) ==
    LET captures == re_captures(interval) IN
    IF ~captures.some THEN create_interval_error(interval)
    ELSE
    LET start == parse_index(captures.val.g1) IN
    IF ~start.ok THEN start
    ELSE IF start.val < 1 THEN create_interval_error(ToDecimal(start.val))
    ELSE IF ~captures.val.g3.some THEN Ok(Rng(start.val - 1, start.val))
    ELSE
    LET end == parse_index(captures.val.g3.val) IN
    IF ~end.ok THEN end
    ELSE IF TRUE THEN Ok(Rng(start.val - 1, end.val))
    ELSE create_range_error(
            <<"First number in range (">> \o ToDecimal(start.val)
            \o <<") must be lower than second number (">>
            \o ToDecimal(end.val) \o <<")">>)

\* mutant of interval_to_range: a zero start is reported with the token text
interval_to_range_EchoToken(interval) ==
    LET captures == re_captures(interval) IN
    IF ~captures.some THEN create_interval_error(interval)
    ELSE
    LET start == parse_index(captures.val.g1) IN
    IF ~start.ok THEN start
    ELSE IF start.val < 1 THEN create_interval_error(interval)
    ELSE IF ~captures.val.g3.some THEN Ok(Rng(start.val - 1, start.val))
    ELSE
    LET end == parse_index(captures.val.g3.val) IN
    IF ~end.ok THEN end
    ELSE IF start.val < end.val THEN Ok(Rng(start.val - 1, end.val))
    ELSE create_range_error(
            <<"First number in range (">> \o ToDecimal(start.val)
            \o <<") must be lower than second number (">>
            \o ToDecimal(end.val) \o <<")">>)

interval_to_range(interval) ==
    LET captures == re_captures(interval) IN
    IF ~captures.some THEN create_interval_error(interval)
    ELSE
    LET start == parse_index(captures.val.g1) IN
    IF ~start.ok THEN start
    ELSE IF start.val < 1 THEN create_interval_error(ToDecimal(start.val))
    ELSE IF ~captures.val.g3.some THEN Ok(Rng(start.val - 1, start.val))
    ELSE
    LET end == parse_index(captures.val.g3.val) IN
    IF ~end.ok THEN end
    ELSE IF start.val < end.val THEN Ok(Rng(start.val - 1, end.val))
    ELSE create_range_error(
            <<"First number in range (">> \o ToDecimal(start.val)
            \o <<") must be lower than second number (">>
            \o ToDecimal(end.val) \o <<")">>)

\* mutant of CollectRanges: tokens in error are skipped
RECURSIVE CollectRanges_SkipInvalid(_)
CollectRanges_SkipInvalid(tokens) ==
    IF tokens = <<>> THEN Ok(<<>>)
    ELSE LET first == interval_to_range(Head(tokens))
             rest == CollectRanges_SkipInvalid(Tail(tokens))
         IN IF ~first.ok THEN rest ELSE Ok(<<first.val>> \o rest.val)

\* mutant of CollectRanges: a range that starts lower is moved to the front
RECURSIVE CollectRanges_Sorted(_)
CollectRanges_Sorted(tokens) ==
    IF tokens = <<>> THEN Ok(<<>>)
    ELSE LET first == interval_to_range(Head(tokens)) IN
         IF ~first.ok THEN first
         ELSE LET rest == CollectRanges_Sorted(Tail(tokens)) IN
              IF ~rest.ok THEN rest
              ELSE IF rest.val # <<>> /\ rest.val[1].start < first.val.start
                   THEN Ok(<<rest.val[1], first.val>> \o Tail(rest.val))
                   ELSE Ok(<<first.val>> \o rest.val)

\* .map(interval_to_range).collect::<Result<Vec<_>, _>>(): the ranges in
\* token order, or the error of the first token that has one
RECURSIVE CollectRanges(_)
CollectRanges(tokens) ==
    IF tokens = <<>> THEN Ok(<<>>)
    ELSE LET first == interval_to_range(Head(tokens)) IN
         IF ~first.ok THEN first
         ELSE LET rest == CollectRanges(Tail(tokens)) IN
              IF ~rest.ok THEN rest
              ELSE Ok(<<first.val>> \o rest.val)

parse_pos(r) == CollectRanges(SplitComma(r))

----------------------------------------------------------------------------
(* Specification of parse_pos: every text up to MaxSpecLen characters *)

SpecTexts == UNION {[1..n -> SpecAlphabet] : n \in 0..MaxSpecLen}

InitParsePos ==
    /\ pc = "parse_pos"
    /\ range \in SpecTexts
    /\ parsed = None
    /\ extract = None
    /\ line = <<>>
    /\ record = <<>>
    /\ extracted = None
    /\ CutrIdle
    /\ TailrIdle
    /\ GreprIdle
    /\ FindFilesIdle
    /\ UniqrIdle
    /\ CommrIdle
    /\ WcrIdle
    /\ FortunerIdle

ParsePos ==
    /\ pc = "parse_pos"
    /\ parsed' = Some(parse_pos(range))
    /\ pc' = "parsed"
    /\ UNCHANGED <<range, extract, line, record, extracted>>
    /\ UNCHANGED cutrVars
    /\ UNCHANGED tailrVars
    /\ UNCHANGED greprVars
    /\ UNCHANGED findFilesVars
    /\ UNCHANGED uniqrVars
    /\ UNCHANGED commrVars
    /\ UNCHANGED wcrVars
    /\ UNCHANGED fortunerVars

NextParsePos == ParsePos

SpecParsePos == InitParsePos /\ [][NextParsePos]_vars

----------------------------------------------------------------------------
(* cutr: extraction *)

\* the UTF-8 encoding of a character
Utf8(ch) ==
    CASE ch = "b" -> <<98>>
      [] ch = "c" -> <<99>>
      [] ch = "U+00E1" -> <<195, 161>>
      [] ch = "," -> <<44>>

\* the characters of the model
Utf8Alphabet == LineAlphabet \cup {","}

IsPrefix(p, s) == Len(p) <= Len(s) /\ SubSeq(s, 1, Len(p)) = p

\* str::chars(): a text is kept as the sequence of its characters
str_chars(s) == s

\* str::bytes(): the encodings of the characters, one after the other
RECURSIVE str_bytes(_)
str_bytes(s) ==
    IF s = <<>> THEN <<>> ELSE Utf8(Head(s)) \o str_bytes(Tail(s))

\* String::from_utf8_lossy: a well-formed sequence decodes to its character,
\* a byte that begins none (a lead byte without its continuation, a stray
\* continuation byte) becomes U+FFFD REPLACEMENT CHARACTER
RECURSIVE from_utf8_lossy(_)
from_utf8_lossy(bytes) ==
    IF bytes = <<>> THEN <<>>
    ELSE IF \E ch \in Utf8Alphabet : IsPrefix(Utf8(ch), bytes)
    THEN LET ch == CHOOSE c \in Utf8Alphabet : IsPrefix(Utf8(c), bytes)
         IN <<ch>> \o from_utf8_lossy(SubSeq(bytes, Len(Utf8(ch)) + 1, Len(bytes)))
    ELSE <<"U+FFFD">> \o from_utf8_lossy(Tail(bytes))

\* &seq[s..e]
Slice(seq, s, e) == SubSeq(seq, s + 1, e)

\* &seq[s..e] is within the sequence; outside it the indexing panics
SliceInBounds(seq, s, e) == s <= e /\ e <= Len(seq)

\* mutant of slice_guard: the end of the range is not compared with the length
slice_guard_NoEndTest(l, rng) == rng.start < rng.end

\* the test `s < e && e <= l` of chars_in_range and of bytes_in_range
slice_guard(l, rng) == rng.start < rng.end /\ rng.end <= l

\* the strings (or vectors) of a sequence, joined with nothing between them
RECURSIVE Concat(_)
Concat(parts) ==
    IF parts = <<>> THEN <<>> ELSE Head(parts) \o Concat(Tail(parts))

chars_in_range(chars, rng) ==
    LET l == Len(chars)
        s == rng.start
        e == rng.end
    IN IF slice_guard(l, rng) THEN Slice(chars, s, e) ELSE <<>>

\* chars_in_range / bytes_in_range index the sequence out of bounds
in_range_panics(seq, rng) ==
    slice_guard(Len(seq), rng) /\ ~SliceInBounds(seq, rng.start, rng.end)

\* mutant of extract_chars: the ranges index the bytes of the line
extract_chars_ByBytes(ln, char_positions) ==
    LET bytes == str_bytes(ln)
    IN Concat([k \in 1..Len(char_positions) |->
                    IF slice_guard(Len(bytes), char_positions[k])
                    THEN from_utf8_lossy(Slice(bytes, char_positions[k].start,
                                               char_positions[k].end))
                    ELSE <<>>])

extract_chars(ln, char_positions) ==
    LET chars == str_chars(ln)
    IN Concat([k \in 1..Len(char_positions) |->
                    chars_in_range(chars, char_positions[k])])

bytes_in_range(bytes, rng) ==
    LET l == Len(bytes)
        s == rng.start
        e == rng.end
    IN IF slice_guard(l, rng) THEN from_utf8_lossy(Slice(bytes, s, e)) ELSE <<>>

extract_bytes(ln, byte_positions) ==
    LET bytes == str_bytes(ln)
    IN Concat([k \in 1..Len(byte_positions) |->
                    bytes_in_range(bytes, byte_positions[k])])

\* StringRecord::get(i)
record_get(rec, i) == IF i < Len(rec) THEN Some(rec[i + 1]) ELSE None

\* the loop `for i in range.start..range.end` from index i on
RECURSIVE FieldsFrom(_, _, _)
FieldsFrom(rec, i, end) ==
    IF i >= end THEN <<>>
    ELSE (IF record_get(rec, i).some THEN <<record_get(rec, i).val>> ELSE <<>>)
         \o FieldsFrom(rec, i + 1, end)

\* mutant of fields_in_range: a range reaching past the record yields nothing
fields_in_range_WholeRangeOnly(rec, rng) ==
    IF rng.start < rng.end /\ rng.end <= Len(rec)
    THEN Slice(rec, rng.start, rng.end) ELSE <<>>

fields_in_range(rec, rng) == FieldsFrom(rec, rng.start, rng.end)

extract_fields(rec, field_positions) ==
    Concat([k \in 1..Len(field_positions) |->
                fields_in_range(rec, field_positions[k])])

----------------------------------------------------------------------------
(* Specification of the extraction: every line or record up to MaxLineLen  *)
(* elements, under every list of 1..MaxRanges ranges as parse_pos returns  *)
(* them (start < end) with end <= MaxPos                                   *)

Ranges == {Rng(s, e) : s \in 0..(MaxPos - 1), e \in 1..MaxPos} \cap
          {r \in [start : 0..MaxPos, end : 0..MaxPos] : r.start < r.end}

PositionLists == UNION {[1..n -> Ranges] : n \in 1..MaxRanges}

Lines == UNION {[1..n -> LineAlphabet] : n \in 0..MaxLineLen}

Records == UNION {[1..n -> FieldAlphabet] : n \in 0..MaxLineLen}

InitExtract ==
    /\ pc = "run"
    /\ range = <<>>
    /\ parsed = None
    /\ extract \in [kind : {"Fields", "Bytes", "Chars"}, positions : PositionLists]
    /\ line \in Lines
    /\ record \in Records
    /\ extract.kind = "Fields" => line = <<>>
    /\ extract.kind # "Fields" => record = <<>>
    /\ extracted = None
    /\ CutrIdle
    /\ TailrIdle
    /\ GreprIdle
    /\ FindFilesIdle
    /\ UniqrIdle
    /\ CommrIdle
    /\ WcrIdle
    /\ FortunerIdle

\* run_line, Extract::Chars
ExtractChars ==
    /\ pc = "run"
    /\ extract.kind = "Chars"
    /\ IF \E k \in 1..Len(extract.positions) :
             in_range_panics(str_chars(line), extract.positions[k])
       THEN extracted' = None /\ pc' = "panicked"
       ELSE /\ extracted' = Some(extract_chars(line, extract.positions))
            /\ pc' = "extracted"
    /\ UNCHANGED <<range, parsed, extract, line, record>>
    /\ UNCHANGED cutrVars
    /\ UNCHANGED tailrVars
    /\ UNCHANGED greprVars
    /\ UNCHANGED findFilesVars
    /\ UNCHANGED uniqrVars
    /\ UNCHANGED commrVars
    /\ UNCHANGED wcrVars
    /\ UNCHANGED fortunerVars

\* run_line, Extract::Bytes
ExtractBytes ==
    /\ pc = "run"
    /\ extract.kind = "Bytes"
    /\ IF \E k \in 1..Len(extract.positions) :
             in_range_panics(str_bytes(line), extract.positions[k])
       THEN extracted' = None /\ pc' = "panicked"
       ELSE /\ extracted' = Some(extract_bytes(line, extract.positions))
            /\ pc' = "extracted"
    /\ UNCHANGED <<range, parsed, extract, line, record>>
    /\ UNCHANGED cutrVars
    /\ UNCHANGED tailrVars
    /\ UNCHANGED greprVars
    /\ UNCHANGED findFilesVars
    /\ UNCHANGED uniqrVars
    /\ UNCHANGED commrVars
    /\ UNCHANGED wcrVars
    /\ UNCHANGED fortunerVars

\* extract_fields_from_file, one header or record
ExtractFields ==
    /\ pc = "run"
    /\ extract.kind = "Fields"
    /\ extracted' = Some(extract_fields(record, extract.positions))
    /\ pc' = "extracted"
    /\ UNCHANGED <<range, parsed, extract, line, record>>
    /\ UNCHANGED cutrVars
    /\ UNCHANGED tailrVars
    /\ UNCHANGED greprVars
    /\ UNCHANGED findFilesVars
    /\ UNCHANGED uniqrVars
    /\ UNCHANGED commrVars
    /\ UNCHANGED wcrVars
    /\ UNCHANGED fortunerVars

NextExtract == ExtractChars \/ ExtractBytes \/ ExtractFields

SpecExtract == InitExtract /\ [][NextExtract]_vars

----------------------------------------------------------------------------
(* cutr: the program *)

\* mutant of clap_parse: the group "mode" does not make its arguments exclusive
clap_parse_NoGroup(a) == Ok(a)

\* ConfigArgs::parse(): the ArgGroup "mode" admits at most one of
\* --fields, --bytes and --chars; clap ends the process otherwise
clap_parse(a) ==
    IF Cardinality({f \in {"field_positions", "byte_positions", "char_positions"} :
                        a[f].some}) > 1
    THEN Err(<<"error: the argument cannot be used with another of group mode">>)
    ELSE Ok(a)

\* mutant of get_delimiter: the characters are counted, not the bytes
get_delimiter_CountChars(a) ==
    IF Len(a.delimiter) # 1
    THEN Err(<<"--delim \"">> \o a.delimiter \o <<"\" must be a single byte">>)
    ELSE Ok(str_bytes(a.delimiter)[1])

get_delimiter(a) ==
    LET bytes == str_bytes(a.delimiter)
    IN IF Len(bytes) # 1
       THEN Err(<<"--delim \"">> \o a.delimiter \o <<"\" must be a single byte">>)
       ELSE Ok(bytes[1])

\* Extract::Fields / Bytes / Chars over the parsed positions
ExtractOf(kind, positions) ==
    IF positions.ok THEN Ok([kind |-> kind, positions |-> positions.val])
    ELSE positions

\* mutant of get_extract: a range list in error is replaced by the list 1
get_extract_IgnoreError(a) ==
    LET lenient(text) == IF parse_pos(text).ok THEN parse_pos(text)
                         ELSE Ok(<<Rng(0, 1)>>)
    IN IF a.field_positions.some
       THEN ExtractOf("Fields", lenient(a.field_positions.val))
       ELSE IF a.byte_positions.some
       THEN ExtractOf("Bytes", lenient(a.byte_positions.val))
       ELSE IF a.char_positions.some
       THEN ExtractOf("Chars", lenient(a.char_positions.val))
       ELSE Err(<<"No positions were specified">>)

get_extract(a) ==
    IF a.field_positions.some
    THEN ExtractOf("Fields", parse_pos(a.field_positions.val))
    ELSE IF a.byte_positions.some
    THEN ExtractOf("Bytes", parse_pos(a.byte_positions.val))
    ELSE IF a.char_positions.some
    THEN ExtractOf("Chars", parse_pos(a.char_positions.val))
    ELSE Err(<<"No positions were specified">>)

config_args_into_config(a) ==
    IF ~a.field_positions.some /\ ~a.byte_positions.some /\ ~a.char_positions.some
    THEN Err(<<"Must have --fields, --bytes, or --chars">>)
    ELSE LET delimiter == get_delimiter(a) IN
         IF ~delimiter.ok THEN delimiter
         ELSE LET ext == get_extract(a) IN
              IF ~ext.ok THEN ext
              ELSE Ok([files |-> a.files,
                       delimiter |-> delimiter.val,
                       extract |-> ext.val])

\* `config.delimiter as char`
DelimChar(byte) == CHOOSE ch \in Utf8Alphabet : Utf8(ch) = <<byte>>

\* the fields of a line of text: the pieces between the delimiters (no field
\* of the model is quoted)
RECURSIVE SplitAt(_, _)
SplitAt(text, ch) ==
    IF \A i \in 1..Len(text) : text[i] # ch
    THEN <<text>>
    ELSE LET i == CHOOSE k \in 1..Len(text) :
                     text[k] = ch /\ \A j \in 1..(k - 1) : text[j] # ch
         IN <<SubSeq(text, 1, i - 1)>> \o SplitAt(SubSeq(text, i + 1, Len(text)), ch)

\* [String]::join(sep)
RECURSIVE Join(_, _)
Join(parts, sep) ==
    IF parts = <<>> THEN <<>>
    ELSE IF Len(parts) = 1 THEN parts[1]
    ELSE parts[1] \o sep \o Join(Tail(parts), sep)

\* a line of an input file: text, or bytes that are not UTF-8
TextLine(t) == [utf8 |-> TRUE, text |-> t]
InvalidLine == [utf8 |-> FALSE, text |-> <<>>]

\* the number of fields the csv reader finds in a line (a line that is not
\* UTF-8 is taken to hold no delimiter)
csv_field_count(raw, delim) ==
    IF raw.utf8 THEN Len(SplitAt(raw.text, DelimChar(delim))) ELSE 1

\* csv::Reader (has_headers, not flexible) reading one record: an error when
\* the record has not the number of fields of the first record read, or is
\* not UTF-8
csv_record(raw, delim, first_field_count) ==
    IF first_field_count.some /\ csv_field_count(raw, delim) # first_field_count.val
    THEN Err(<<"found record with unequal lengths">>)
    ELSE IF ~raw.utf8 THEN Err(<<"invalid utf-8">>)
    ELSE Ok(SplitAt(raw.text, DelimChar(delim)))

\* extract_fields_from_file: the line printed for a header or a record
fields_line(rec, positions, delim) ==
    Join(extract_fields(rec, positions), <<DelimChar(delim)>>)

\* run_line: the line printed in character or byte mode
run_line(ln, cfg) ==
    IF cfg.extract.kind = "Chars" THEN extract_chars(ln, cfg.extract.positions)
    ELSE extract_bytes(ln, cfg.extract.positions)

\* the error of File::open for a file that cannot be opened
OpenError == <<"No such file or directory (os error 2)">>

----------------------------------------------------------------------------
(* Specification of cutr: every command line over the flag values PosArgs, *)
(* the delimiters Delims and 1..MaxFiles files; each file opens or not,    *)
(* and yields up to MaxFileLines lines out of RawLines                     *)

PosArgs == {<<"2", ",", "1">>, <<"a">>}

Delims == {<<",">>, <<>>, <<",", ",">>, <<"U+00E1">>}

FileName(i) == <<"f">> \o ToDecimal(i)

RawLines == {TextLine(<<"b", ",", "c">>), TextLine(<<"b">>), InvalidLine}

OptionalPos == {None} \cup {Some(t) : t \in PosArgs}

CommandLines ==
    [files : {[i \in 1..n |-> FileName(i)] : n \in 1..MaxFiles},
     delimiter : Delims,
     field_positions : OptionalPos,
     byte_positions : OptionalPos,
     char_positions : OptionalPos]

InitCutr ==
    /\ pc = "main"
    /\ range = <<>>
    /\ parsed = None
    /\ extract = None
    /\ line = <<>>
    /\ record = <<>>
    /\ extracted = None
    /\ args \in CommandLines
    /\ config = None
    /\ file_idx = 0
    /\ reader = None
    /\ io_log = <<>>
    /\ stdout = <<>>
    /\ stderr = <<>>
    /\ exit_code = None
    /\ TailrIdle
    /\ GreprIdle
    /\ FindFilesIdle
    /\ UniqrIdle
    /\ CommrIdle
    /\ WcrIdle
    /\ FortunerIdle

\* get_config: ConfigArgs::parse() ends the process with the usage error
ClapRejects ==
    /\ pc = "main"
    /\ ~clap_parse(args).ok
    /\ stderr' = Append(stderr, clap_parse(args).err)
    /\ exit_code' = Some(2)
    /\ pc' = "exited"
    /\ UNCHANGED <<args, config, file_idx, reader, io_log, stdout>>
    /\ UNCHANGED funVars
    /\ UNCHANGED tailrVars
    /\ UNCHANGED greprVars
    /\ UNCHANGED findFilesVars
    /\ UNCHANGED uniqrVars
    /\ UNCHANGED commrVars
    /\ UNCHANGED wcrVars
    /\ UNCHANGED fortunerVars

\* main: get_config() returns an error, which is printed; exit(1)
ConfigFails ==
    /\ pc = "main"
    /\ clap_parse(args).ok
    /\ ~config_args_into_config(clap_parse(args).val).ok
    /\ stderr' = Append(stderr, config_args_into_config(clap_parse(args).val).err)
    /\ exit_code' = Some(1)
    /\ pc' = "exited"
    /\ UNCHANGED <<args, config, file_idx, reader, io_log, stdout>>
    /\ UNCHANGED funVars
    /\ UNCHANGED tailrVars
    /\ UNCHANGED greprVars
    /\ UNCHANGED findFilesVars
    /\ UNCHANGED uniqrVars
    /\ UNCHANGED commrVars
    /\ UNCHANGED wcrVars
    /\ UNCHANGED fortunerVars

\* main: get_config() returns the Config, and_then enters run
ConfigOk ==
    /\ pc = "main"
    /\ clap_parse(args).ok
    /\ config_args_into_config(clap_parse(args).val).ok
    /\ config' = Some(config_args_into_config(clap_parse(args).val).val)
    /\ pc' = "run"
    /\ UNCHANGED <<args, file_idx, reader, io_log, stdout, stderr, exit_code>>
    /\ UNCHANGED funVars
    /\ UNCHANGED tailrVars
    /\ UNCHANGED greprVars
    /\ UNCHANGED findFilesVars
    /\ UNCHANGED uniqrVars
    /\ UNCHANGED commrVars
    /\ UNCHANGED wcrVars
    /\ UNCHANGED fortunerVars

\* mutant of OpenFails: the error of open is returned from run with ?
OpenFails_Returns ==
    /\ pc = "run"
    /\ file_idx < Len(config.val.files)
    /\ stderr' = Append(stderr, OpenError)
    /\ io_log' = Append(io_log, [op |-> "open failed", file |-> file_idx + 1])
    /\ exit_code' = Some(1)
    /\ pc' = "exited"
    /\ UNCHANGED <<args, config, file_idx, reader, stdout>>
    /\ UNCHANGED funVars
    /\ UNCHANGED tailrVars
    /\ UNCHANGED greprVars
    /\ UNCHANGED findFilesVars
    /\ UNCHANGED uniqrVars
    /\ UNCHANGED commrVars
    /\ UNCHANGED wcrVars
    /\ UNCHANGED fortunerVars

\* run: open(filename) fails; the error is printed and the loop goes on
OpenFails ==
    /\ pc = "run"
    /\ file_idx < Len(config.val.files)
    /\ stderr' = Append(stderr, config.val.files[file_idx + 1] \o <<": ">> \o OpenError)
    /\ io_log' = Append(io_log, [op |-> "open failed", file |-> file_idx + 1])
    /\ file_idx' = file_idx + 1
    /\ UNCHANGED <<pc, args, config, reader, stdout, exit_code>>
    /\ UNCHANGED funVars
    /\ UNCHANGED tailrVars
    /\ UNCHANGED greprVars
    /\ UNCHANGED findFilesVars
    /\ UNCHANGED uniqrVars
    /\ UNCHANGED commrVars
    /\ UNCHANGED wcrVars
    /\ UNCHANGED fortunerVars

\* run: open(filename) succeeds and run_file begins
OpenSucceeds ==
    /\ pc = "run"
    /\ file_idx < Len(config.val.files)
    /\ reader' = Some([read |-> 0, header_done |-> FALSE, eof |-> FALSE,
                       first_field_count |-> None])
    /\ io_log' = Append(io_log, [op |-> "open", file |-> file_idx + 1])
    /\ pc' = "file"
    /\ UNCHANGED <<args, config, file_idx, stdout, stderr, exit_code>>
    /\ UNCHANGED funVars
    /\ UNCHANGED tailrVars
    /\ UNCHANGED greprVars
    /\ UNCHANGED findFilesVars
    /\ UNCHANGED uniqrVars
    /\ UNCHANGED commrVars
    /\ UNCHANGED wcrVars
    /\ UNCHANGED fortunerVars

\* run_file, byte or character mode: file.lines() yields one more line; a
\* line that is not UTF-8 is an Err that flatten() leaves out
ReadLine ==
    /\ pc = "file"
    /\ config.val.extract.kind # "Fields"
    /\ reader.val.read < MaxFileLines
    /\ \E raw \in RawLines :
          /\ io_log' = Append(io_log, [op |-> "read", file |-> file_idx + 1, raw |-> raw])
          /\ stdout' = IF raw.utf8
                       THEN Append(stdout, run_line(raw.text, config.val))
                       ELSE stdout
    /\ reader' = Some([reader.val EXCEPT !.read = @ + 1])
    /\ UNCHANGED <<pc, args, config, file_idx, stderr, exit_code>>
    /\ UNCHANGED funVars
    /\ UNCHANGED tailrVars
    /\ UNCHANGED greprVars
    /\ UNCHANGED findFilesVars
    /\ UNCHANGED uniqrVars
    /\ UNCHANGED commrVars
    /\ UNCHANGED wcrVars
    /\ UNCHANGED fortunerVars

\* extract_fields_from_file: reader.headers() reads the first record
ReadHeader ==
    /\ pc = "file"
    /\ config.val.extract.kind = "Fields"
    /\ ~reader.val.header_done
    /\ \E raw \in RawLines :
          LET header == csv_record(raw, config.val.delimiter, None) IN
          /\ io_log' = Append(io_log, [op |-> "read", file |-> file_idx + 1, raw |-> raw])
          /\ stdout' = IF header.ok
                       THEN Append(stdout, fields_line(header.val,
                                                       config.val.extract.positions,
                                                       config.val.delimiter))
                       ELSE stdout
          /\ reader' = Some([reader.val EXCEPT
                                !.read = @ + 1,
                                !.header_done = TRUE,
                                !.first_field_count =
                                    Some(csv_field_count(raw, config.val.delimiter))])
    /\ UNCHANGED <<pc, args, config, file_idx, stderr, exit_code>>
    /\ UNCHANGED funVars
    /\ UNCHANGED tailrVars
    /\ UNCHANGED greprVars
    /\ UNCHANGED findFilesVars
    /\ UNCHANGED uniqrVars
    /\ UNCHANGED commrVars
    /\ UNCHANGED wcrVars
    /\ UNCHANGED fortunerVars

\* extract_fields_from_file: reader.headers() on an input without a record
\* returns the empty record, which is extracted and printed
ReadHeaderAtEnd ==
    /\ pc = "file"
    /\ config.val.extract.kind = "Fields"
    /\ ~reader.val.header_done
    /\ stdout' = Append(stdout, fields_line(<<>>, config.val.extract.positions,
                                            config.val.delimiter))
    /\ reader' = Some([reader.val EXCEPT !.header_done = TRUE, !.eof = TRUE])
    /\ UNCHANGED <<pc, args, config, file_idx, io_log, stderr, exit_code>>
    /\ UNCHANGED funVars
    /\ UNCHANGED tailrVars
    /\ UNCHANGED greprVars
    /\ UNCHANGED findFilesVars
    /\ UNCHANGED uniqrVars
    /\ UNCHANGED commrVars
    /\ UNCHANGED wcrVars
    /\ UNCHANGED fortunerVars

\* extract_fields_from_file: reader.records() yields one more record; an Err
\* is left out by flatten()
ReadRecord ==
    /\ pc = "file"
    /\ config.val.extract.kind = "Fields"
    /\ reader.val.header_done
    /\ ~reader.val.eof
    /\ reader.val.read < MaxFileLines
    /\ \E raw \in RawLines :
          LET rec == csv_record(raw, config.val.delimiter,
                                reader.val.first_field_count) IN
          /\ io_log' = Append(io_log, [op |-> "read", file |-> file_idx + 1, raw |-> raw])
          /\ stdout' = IF rec.ok
                       THEN Append(stdout, fields_line(rec.val,
                                                       config.val.extract.positions,
                                                       config.val.delimiter))
                       ELSE stdout
    /\ reader' = Some([reader.val EXCEPT !.read = @ + 1])
    /\ UNCHANGED <<pc, args, config, file_idx, stderr, exit_code>>
    /\ UNCHANGED funVars
    /\ UNCHANGED tailrVars
    /\ UNCHANGED greprVars
    /\ UNCHANGED findFilesVars
    /\ UNCHANGED uniqrVars
    /\ UNCHANGED commrVars
    /\ UNCHANGED wcrVars
    /\ UNCHANGED fortunerVars

\* run_file returns at the end of the input; the file is dropped (closed)
EndOfFile ==
    /\ pc = "file"
    /\ config.val.extract.kind = "Fields" => reader.val.header_done
    /\ reader' = None
    /\ io_log' = Append(io_log, [op |-> "close", file |-> file_idx + 1])
    /\ file_idx' = file_idx + 1
    /\ pc' = "run"
    /\ UNCHANGED <<args, config, stdout, stderr, exit_code>>
    /\ UNCHANGED funVars
    /\ UNCHANGED tailrVars
    /\ UNCHANGED greprVars
    /\ UNCHANGED findFilesVars
    /\ UNCHANGED uniqrVars
    /\ UNCHANGED commrVars
    /\ UNCHANGED wcrVars
    /\ UNCHANGED fortunerVars

\* run returns Ok(()) after the last file; main ends with status 0
RunReturns ==
    /\ pc = "run"
    /\ file_idx = Len(config.val.files)
    /\ exit_code' = Some(0)
    /\ pc' = "exited"
    /\ UNCHANGED <<args, config, file_idx, reader, io_log, stdout, stderr>>
    /\ UNCHANGED funVars
    /\ UNCHANGED tailrVars
    /\ UNCHANGED greprVars
    /\ UNCHANGED findFilesVars
    /\ UNCHANGED uniqrVars
    /\ UNCHANGED commrVars
    /\ UNCHANGED wcrVars
    /\ UNCHANGED fortunerVars

NextCutr ==
    \/ ClapRejects
    \/ ConfigFails
    \/ ConfigOk
    \/ OpenFails
    \/ OpenSucceeds
    \/ ReadLine
    \/ ReadHeader
    \/ ReadHeaderAtEnd
    \/ ReadRecord
    \/ EndOfFile
    \/ RunReturns

SpecCutr == InitCutr /\ [][NextCutr]_vars

----------------------------------------------------------------------------
(* tailr: get_start_index *)

\* u64::MAX of the scaled-down u64
U64Max == 2 ^ U64Bits - 1

\* Offset::Start(num) and Offset::End(num)
Start(num) == [kind |-> "Start", num |-> num]
End(num) == [kind |-> "End", num |-> num]

\* mutant of get_start_index: End(num) is not clamped at the first index
get_start_index_NoClamp(off, sz) ==
    IF sz = 0 THEN None
    ELSE IF off.kind = "Start"
    THEN IF off.num = 0 THEN Some(0)
         ELSE IF off.num <= sz THEN Some((off.num - 1) % (U64Max + 1))
         ELSE None
    ELSE IF off.num = 0 THEN None
         ELSE Some((sz - off.num) % (U64Max + 1))

get_start_index(off, sz) ==
    IF sz = 0 THEN None
    ELSE IF off.kind = "Start"
    THEN IF off.num = 0 THEN Some(0)
         ELSE IF off.num <= sz THEN Some((off.num - 1) % (U64Max + 1))
         ELSE None
    ELSE IF off.num = 0 THEN None
         ELSE Some(IF sz >= off.num THEN (sz - off.num) % (U64Max + 1) ELSE 0)

----------------------------------------------------------------------------
(* Specification of get_start_index: every offset and every size of the   *)
(* scaled-down u64                                                         *)

Offsets == {Start(n) : n \in 0..U64Max} \cup {End(n) : n \in 0..U64Max}

InitGetStartIndex ==
    /\ pc = "offset"
    /\ range = <<>>
    /\ parsed = None
    /\ extract = None
    /\ line = <<>>
    /\ record = <<>>
    /\ extracted = None
    /\ CutrIdle
    /\ offset \in {Some(o) : o \in Offsets}
    /\ size \in 0..U64Max
    /\ start_index = None
    /\ offset_str = <<>>
    /\ GreprIdle
    /\ FindFilesIdle
    /\ UniqrIdle
    /\ CommrIdle
    /\ WcrIdle
    /\ FortunerIdle

GetStartIndex ==
    /\ pc = "offset"
    /\ start_index' = Some(get_start_index(offset.val, size))
    /\ pc' = "indexed"
    /\ UNCHANGED <<offset, size, offset_str>>
    /\ UNCHANGED funVars
    /\ UNCHANGED cutrVars
    /\ UNCHANGED greprVars
    /\ UNCHANGED findFilesVars
    /\ UNCHANGED uniqrVars
    /\ UNCHANGED commrVars
    /\ UNCHANGED wcrVars
    /\ UNCHANGED fortunerVars

NextGetStartIndex == GetStartIndex

SpecGetStartIndex == InitGetStartIndex /\ [][NextGetStartIndex]_vars

----------------------------------------------------------------------------
(* tailr: parse_offset *)

\* str::parse::<u64> on a non-empty text: left to right, an error at the
\* first character that is no ASCII digit or that overflows u64
RECURSIVE ParseU64From(_, _, _)
ParseU64From(text, i, acc) ==
    IF i > Len(text) THEN Ok(acc)
    ELSE IF ~IsAsciiDigit(text[i]) THEN Err(<<"invalid digit found in string">>)
    ELSE IF acc * 10 + DigitVal(text[i]) > U64Max
         THEN Err(<<"number too large to fit in target type">>)
    ELSE ParseU64From(text, i + 1, acc * 10 + DigitVal(text[i]))

\* OFFSET_REGEX.captures(s) for "^([+-])?(\d+)$": the groups 1 and 2
offset_captures(text) ==
    IF Len(text) >= 1 /\ text[1] \in {"+", "-"} /\ AllDigits(Tail(text))
    THEN Some([sign |-> Some(text[1]), num_str |-> Tail(text)])
    ELSE IF AllDigits(text)
    THEN Some([sign |-> None, num_str |-> text])
    ELSE None

\* num_str.parse().unwrap() panics: the digits are no u64
parse_offset_panics(text) ==
    /\ offset_captures(text).some
    /\ ~ParseU64From(offset_captures(text).val.num_str, 1, 0).ok

\* the value parse_offset returns when it returns
parse_offset(text) ==
    LET captures == offset_captures(text) IN
    IF captures.some
    THEN LET from_start == captures.val.sign = Some("+")
             num == ParseU64From(captures.val.num_str, 1, 0).val
         IN IF from_start THEN Some(Start(num)) ELSE Some(End(num))
    ELSE None

----------------------------------------------------------------------------
(* Specification of parse_offset: every text of up to MaxOffsetLen         *)
(* characters of OffsetAlphabet                                            *)

OffsetAlphabet == {"+", "-", "0", "1", "9", "a", "U+0663"}

OffsetTexts == UNION {[1..n -> OffsetAlphabet] : n \in 0..MaxOffsetLen}

InitParseOffset ==
    /\ pc = "parse_offset"
    /\ range = <<>>
    /\ parsed = None
    /\ extract = None
    /\ line = <<>>
    /\ record = <<>>
    /\ extracted = None
    /\ CutrIdle
    /\ offset = None
    /\ size = 0
    /\ start_index = None
    /\ offset_str \in OffsetTexts
    /\ GreprIdle
    /\ FindFilesIdle
    /\ UniqrIdle
    /\ CommrIdle
    /\ WcrIdle
    /\ FortunerIdle

ParseOffset ==
    /\ pc = "parse_offset"
    /\ IF parse_offset_panics(offset_str)
       THEN offset' = None /\ pc' = "panicked"
       ELSE offset' = parse_offset(offset_str) /\ pc' = "offset_parsed"
    /\ UNCHANGED <<size, start_index, offset_str>>
    /\ UNCHANGED funVars
    /\ UNCHANGED cutrVars
    /\ UNCHANGED greprVars
    /\ UNCHANGED findFilesVars
    /\ UNCHANGED uniqrVars
    /\ UNCHANGED commrVars
    /\ UNCHANGED wcrVars
    /\ UNCHANGED fortunerVars

NextParseOffset == ParseOffset

SpecParseOffset == InitParseOffset /\ [][NextParseOffset]_vars

----------------------------------------------------------------------------
(* grepr: find_lines *)

\* Regex::is_match for a pattern without metacharacters: the pattern occurs
\* in the line
is_match(pat, text) ==
    \E i \in 1..(Len(text) + 1) :
        /\ i + Len(pat) - 1 <= Len(text)
        /\ SubSeq(text, i, i + Len(pat) - 1) = pat

\* the loop of find_lines from the i-th line on: read_line gives Ok(0) at
\* the end of the input and Err for a line that cannot be read, and both end
\* the loop
RECURSIVE find_lines_loop(_, _, _, _, _)
find_lines_loop(file, i, pat, invert, ret) ==
    IF i > Len(file) THEN ret
    ELSE IF ~file[i].utf8 THEN ret
    ELSE LET matched == is_match(pat, file[i].text)
         IN find_lines_loop(file, i + 1, pat, invert,
                            IF matched # invert THEN Append(ret, file[i].text)
                            ELSE ret)

find_lines(file, pat, invert) == Ok(find_lines_loop(file, 1, pat, invert, <<>>))

----------------------------------------------------------------------------
(* Specification of find_lines: every input of up to MaxGrepLines lines,   *)
(* where only the last line may lack its terminator, and every pattern of  *)
(* GrepPatterns                                                            *)

\* the lines with their terminator, and a line that is not UTF-8
TerminatedLines ==
    {TextLine(t \o <<"\n">>) : t \in {<<>>, <<"a">>, <<"b">>}} \cup {InvalidLine}

\* a last line without terminator
UnterminatedLines == {TextLine(<<"a">>), TextLine(<<"b">>)}

GrepFiles ==
    {<<>>} \cup
    UNION {{Append(f, l) : f \in [1..n -> TerminatedLines],
                           l \in TerminatedLines \cup UnterminatedLines} :
           n \in 0..(MaxGrepLines - 1)}

GrepPatterns == {<<>>, <<"a">>, <<"b">>}

InitFindLines ==
    /\ pc = "find_lines"
    /\ FunIdle
    /\ CutrIdle
    /\ TailrIdle
    /\ grep_file \in GrepFiles
    /\ pattern \in GrepPatterns
    /\ invert_match \in BOOLEAN
    /\ found_lines = None
    /\ FindFilesIdle
    /\ UniqrIdle
    /\ CommrIdle
    /\ WcrIdle
    /\ FortunerIdle

FindLines ==
    /\ pc = "find_lines"
    /\ found_lines' = Some(find_lines(grep_file, pattern, invert_match))
    /\ pc' = "lines_found"
    /\ UNCHANGED <<grep_file, pattern, invert_match>>
    /\ UNCHANGED funVars
    /\ UNCHANGED cutrVars
    /\ UNCHANGED tailrVars
    /\ UNCHANGED findFilesVars
    /\ UNCHANGED uniqrVars
    /\ UNCHANGED commrVars
    /\ UNCHANGED wcrVars
    /\ UNCHANGED fortunerVars

NextFindLines == FindLines

SpecFindLines == InitFindLines /\ [][NextFindLines]_vars

----------------------------------------------------------------------------
(* grepr: find_files *)

\* A path is the sequence of its names.  A name "s" is a directory and a
\* name "f" a regular file; a file system is the set of the paths that exist.
is_dir(path, files) == path \in files /\ path[Len(path)] = "s"

is_file(path, files) == path \in files /\ path[Len(path)] = "f"

\* the text of a path: its names separated by "/"
path_str(path) == Join([i \in 1..Len(path) |-> <<path[i]>>], <<"/">>)

\* WalkDir::new(path).min_depth(1): every path below the directory, each
\* directory before what it holds (the order of the entries of one directory
\* is that of the file system; here the file comes first)
RECURSIVE walk_dir(_, _)
walk_dir(path, files) ==
    (IF Append(path, "f") \in files THEN <<Append(path, "f")>> ELSE <<>>)
    \o (IF Append(path, "s") \in files
        THEN <<Append(path, "s")>> \o walk_dir(Append(path, "s"), files)
        ELSE <<>>)

RECURSIVE find_files_in_path(_, _, _)
find_files_in_path(file_path, recur, files) ==
    IF file_path \notin files
    THEN <<Err(path_str(file_path) \o <<": ", "No such file or directory (os error 2)">>)>>
    ELSE IF is_dir(file_path, files) /\ ~recur
    THEN <<Err(path_str(file_path) \o <<" is a directory">>)>>
    ELSE (IF is_dir(file_path, files)
          THEN Concat([k \in 1..Len(walk_dir(file_path, files)) |->
                          find_files_in_path(walk_dir(file_path, files)[k],
                                             recur, files)])
          ELSE <<>>)
         \o (IF is_file(file_path, files) THEN <<Ok(file_path)>> ELSE <<>>)

find_files(path_list, recur, files) ==
    Concat([i \in 1..Len(path_list) |->
               find_files_in_path(path_list[i], recur, files)])

----------------------------------------------------------------------------
(* Specification of find_files: every file system of paths up to MaxDepth  *)
(* names deep, and one or two distinct paths of one name as arguments      *)

AllPaths ==
    {p \in UNION {[1..n -> {"f", "s"}] : n \in 1..MaxDepth} :
        \A i \in 1..(Len(p) - 1) : p[i] = "s"}

\* a path exists only inside a directory that exists
FileSystems ==
    {files \in SUBSET AllPaths :
        \A p \in files : Len(p) > 1 => SubSeq(p, 1, Len(p) - 1) \in files}

PathLists == {<<(<<"s">>)>>, <<(<<"f">>)>>, <<(<<"s">>), (<<"f">>)>>, <<(<<"f">>), (<<"s">>)>>}

InitFindFiles ==
    /\ pc = "find_files"
    /\ FunIdle
    /\ CutrIdle
    /\ TailrIdle
    /\ GreprIdle
    /\ fs \in FileSystems
    /\ paths \in PathLists
    /\ recursive \in BOOLEAN
    /\ found_files = None
    /\ UniqrIdle
    /\ CommrIdle
    /\ WcrIdle
    /\ FortunerIdle

FindFiles ==
    /\ pc = "find_files"
    /\ found_files' = Some(find_files(paths, recursive, fs))
    /\ pc' = "files_found"
    /\ UNCHANGED <<fs, paths, recursive>>
    /\ UNCHANGED funVars
    /\ UNCHANGED cutrVars
    /\ UNCHANGED tailrVars
    /\ UNCHANGED greprVars
    /\ UNCHANGED uniqrVars
    /\ UNCHANGED commrVars
    /\ UNCHANGED wcrVars
    /\ UNCHANGED fortunerVars

NextFindFiles == FindFiles

SpecFindFiles == InitFindFiles /\ [][NextFindFiles]_vars

----------------------------------------------------------------------------
(* uniqr: process_input *)

\* str::trim_end: the text without its trailing white space
RECURSIVE trim_end(_)
trim_end(text) ==
    IF text # <<>> /\ text[Len(text)] \in {" ", "\n"}
    THEN trim_end(SubSeq(text, 1, Len(text) - 1))
    ELSE text

strings_differ(s1, s2) == trim_end(s1) # trim_end(s2)

\* format!("{:>4}", counter): the decimal digits, padded on the left to 4
RECURSIVE pad_left(_, _)
pad_left(text, width) ==
    IF Len(text) >= width THEN text ELSE pad_left(<<" ">> \o text, width)

\* write!(output, "{}", last_line) or write!(output, "{:>4} {}", counter, last_line)
write_line(with_count, counter, last_line) ==
    IF ~with_count THEN last_line
    ELSE pad_left(ToDecimal(counter), 4) \o <<" ">> \o last_line

\* the loop of process_input from the i-th line on, and the write after it:
\* read_line gives Ok(0) at the end of the input and Err for a line that
\* cannot be read, and both end the loop
RECURSIVE process_input_loop(_, _, _, _, _, _)
process_input_loop(file, i, last_line, counter, out, with_count) ==
    IF i > Len(file) \/ ~file[i].utf8
    THEN IF last_line.some
         THEN Append(out, write_line(with_count, counter, last_line.val))
         ELSE out
    ELSE IF ~last_line.some
    THEN process_input_loop(file, i + 1, Some(file[i].text), 1, out, with_count)
    ELSE IF strings_differ(last_line.val, file[i].text)
    THEN process_input_loop(file, i + 1, Some(file[i].text), 1,
                            Append(out, write_line(with_count, counter, last_line.val)),
                            with_count)
    ELSE process_input_loop(file, i + 1, last_line, counter + 1, out, with_count)

\* what process_input writes (to standard output: out_filename is None)
process_input(file, with_count) ==
    process_input_loop(file, 1, None, 0, <<>>, with_count)

----------------------------------------------------------------------------
(* Specification of process_input: every input of up to MaxUniqLines       *)
(* lines, where only the last line may lack its terminator                 *)

UniqTerminated ==
    {TextLine(t \o <<"\n">>) : t \in {<<>>, <<"a">>, <<"a", " ">>, <<"b">>}}
    \cup {InvalidLine}

UniqUnterminated == {TextLine(<<"a">>), TextLine(<<"b">>)}

UniqFiles ==
    {<<>>} \cup
    UNION {{Append(f, l) : f \in [1..n -> UniqTerminated],
                           l \in UniqTerminated \cup UniqUnterminated} :
           n \in 0..(MaxUniqLines - 1)}

InitProcessInput ==
    /\ pc = "process_input"
    /\ FunIdle
    /\ CutrIdle
    /\ TailrIdle
    /\ GreprIdle
    /\ FindFilesIdle
    /\ in_file \in UniqFiles
    /\ show_count \in BOOLEAN
    /\ output = None
    /\ CommrIdle
    /\ WcrIdle
    /\ FortunerIdle

ProcessInput ==
    /\ pc = "process_input"
    /\ output' = Some(process_input(in_file, show_count))
    /\ pc' = "processed"
    /\ UNCHANGED <<in_file, show_count>>
    /\ UNCHANGED funVars
    /\ UNCHANGED cutrVars
    /\ UNCHANGED tailrVars
    /\ UNCHANGED greprVars
    /\ UNCHANGED findFilesVars
    /\ UNCHANGED commrVars
    /\ UNCHANGED wcrVars
    /\ UNCHANGED fortunerVars

NextProcessInput == ProcessInput

SpecProcessInput == InitProcessInput /\ [][NextProcessInput]_vars

----------------------------------------------------------------------------
(* commr: print_line_diffs *)

\* characters of the lines of commr
CommAlphabet == {"A", "a", "b"}

\* str::to_lowercase
to_lowercase(text) ==
    [i \in 1..Len(text) |-> IF text[i] = "A" THEN "a" ELSE text[i]]

\* the code point of a character, which orders the texts
CodePoint(ch) ==
    CASE ch = "A" -> 65
      [] ch = "a" -> 97
      [] ch = "b" -> 98

\* str::cmp: the order of the first characters that differ, else of the lengths
RECURSIVE str_cmp(_, _)
str_cmp(t1, t2) ==
    IF t1 = <<>> /\ t2 = <<>> THEN "Equal"
    ELSE IF t1 = <<>> THEN "Less"
    ELSE IF t2 = <<>> THEN "Greater"
    ELSE IF CodePoint(Head(t1)) < CodePoint(Head(t2)) THEN "Less"
    ELSE IF CodePoint(Head(t1)) > CodePoint(Head(t2)) THEN "Greater"
    ELSE str_cmp(Tail(t1), Tail(t2))

\* line1 and line2 of the loop body, after `if config.insensitive`
compared_line(text, cfg) == IF cfg.insensitive THEN to_lowercase(text) ELSE text

\* print_col1, print_col2, print_col3: what is written, if anything
print_col(col, text, cfg) ==
    LET tabs == (IF col >= 2 /\ cfg.show_col1 THEN cfg.delimiter ELSE <<>>)
                \o (IF col = 3 /\ cfg.show_col2 THEN cfg.delimiter ELSE <<>>)
        shown == CASE col = 1 -> cfg.show_col1
                   [] col = 2 -> cfg.show_col2
                   [] col = 3 -> cfg.show_col3
    IN IF shown THEN Some(tabs \o text) ELSE None

\* the record of one call of print_col1, print_col2 or print_col3
Printed(col, text, cfg) ==
    [col |-> col, i1 |-> i1, i2 |-> i2, out |-> print_col(col, text, cfg)]

----------------------------------------------------------------------------
(* Specification of print_line_diffs: two inputs of up to MaxCommLines     *)
(* lines of one character, with and without -i, all columns shown or one   *)
(* suppressed                                                               *)

CommLines == {<<ch>> : ch \in CommAlphabet}

CommFiles == UNION {[1..n -> CommLines] : n \in 0..MaxCommLines}

CommConfigs ==
    {cfg \in [insensitive : BOOLEAN, show_col1 : BOOLEAN, show_col2 : BOOLEAN,
              show_col3 : BOOLEAN, delimiter : {<<"\t">>}] :
        Cardinality({c \in {1, 2, 3} :
                        ~(<<cfg.show_col1, cfg.show_col2, cfg.show_col3>>)[c]}) <= 1}

InitPrintLineDiffs ==
    /\ pc = "print_line_diffs"
    /\ FunIdle
    /\ CutrIdle
    /\ TailrIdle
    /\ GreprIdle
    /\ FindFilesIdle
    /\ UniqrIdle
    /\ lines1 \in CommFiles
    /\ lines2 \in CommFiles
    /\ comm_config \in {Some(cfg) : cfg \in CommConfigs}
    /\ i1 = 0
    /\ i2 = 0
    /\ comm_log = <<>>
    /\ WcrIdle
    /\ FortunerIdle

\* `if i1 >= n1`: the rest of lines2 goes to column 2
RestOfLines2 ==
    /\ pc = "print_line_diffs"
    /\ i1 < Len(lines1) \/ i2 < Len(lines2)
    /\ i1 >= Len(lines1)
    /\ comm_log' = Append(comm_log, Printed(2, lines2[i2 + 1], comm_config.val))
    /\ i2' = i2 + 1
    /\ UNCHANGED <<pc, lines1, lines2, comm_config, i1>>
    /\ UNCHANGED funVars
    /\ UNCHANGED cutrVars
    /\ UNCHANGED tailrVars
    /\ UNCHANGED greprVars
    /\ UNCHANGED findFilesVars
    /\ UNCHANGED uniqrVars
    /\ UNCHANGED wcrVars
    /\ UNCHANGED fortunerVars

\* `else if i2 >= n2`: the rest of lines1 goes to column 1
RestOfLines1 ==
    /\ pc = "print_line_diffs"
    /\ i1 < Len(lines1) \/ i2 < Len(lines2)
    /\ i1 < Len(lines1)
    /\ i2 >= Len(lines2)
    /\ comm_log' = Append(comm_log, Printed(1, lines1[i1 + 1], comm_config.val))
    /\ i1' = i1 + 1
    /\ UNCHANGED <<pc, lines1, lines2, comm_config, i2>>
    /\ UNCHANGED funVars
    /\ UNCHANGED cutrVars
    /\ UNCHANGED tailrVars
    /\ UNCHANGED greprVars
    /\ UNCHANGED findFilesVars
    /\ UNCHANGED uniqrVars
    /\ UNCHANGED wcrVars
    /\ UNCHANGED fortunerVars

\* mutant of OrderingEqual: only the line of file 1 is consumed
OrderingEqual_KeepsLine2 ==
    /\ pc = "print_line_diffs"
    /\ i1 < Len(lines1)
    /\ i2 < Len(lines2)
    /\ LET line1 == compared_line(lines1[i1 + 1], comm_config.val)
           line2 == compared_line(lines2[i2 + 1], comm_config.val)
       IN /\ str_cmp(line1, line2) = "Equal"
          /\ comm_log' = Append(comm_log, Printed(3, line1, comm_config.val))
    /\ i1' = i1 + 1
    /\ UNCHANGED <<pc, lines1, lines2, comm_config, i2>>
    /\ UNCHANGED funVars
    /\ UNCHANGED cutrVars
    /\ UNCHANGED tailrVars
    /\ UNCHANGED greprVars
    /\ UNCHANGED findFilesVars
    /\ UNCHANGED uniqrVars
    /\ UNCHANGED wcrVars
    /\ UNCHANGED fortunerVars

\* Ordering::Less: line1 goes to column 1
OrderingLess ==
    /\ pc = "print_line_diffs"
    /\ i1 < Len(lines1)
    /\ i2 < Len(lines2)
    /\ LET line1 == compared_line(lines1[i1 + 1], comm_config.val)
           line2 == compared_line(lines2[i2 + 1], comm_config.val)
       IN /\ str_cmp(line1, line2) = "Less"
          /\ comm_log' = Append(comm_log, Printed(1, line1, comm_config.val))
    /\ i1' = i1 + 1
    /\ UNCHANGED <<pc, lines1, lines2, comm_config, i2>>
    /\ UNCHANGED funVars
    /\ UNCHANGED cutrVars
    /\ UNCHANGED tailrVars
    /\ UNCHANGED greprVars
    /\ UNCHANGED findFilesVars
    /\ UNCHANGED uniqrVars
    /\ UNCHANGED wcrVars
    /\ UNCHANGED fortunerVars

\* Ordering::Greater: line2 goes to column 2
OrderingGreater ==
    /\ pc = "print_line_diffs"
    /\ i1 < Len(lines1)
    /\ i2 < Len(lines2)
    /\ LET line1 == compared_line(lines1[i1 + 1], comm_config.val)
           line2 == compared_line(lines2[i2 + 1], comm_config.val)
       IN /\ str_cmp(line1, line2) = "Greater"
          /\ comm_log' = Append(comm_log, Printed(2, line2, comm_config.val))
    /\ i2' = i2 + 1
    /\ UNCHANGED <<pc, lines1, lines2, comm_config, i1>>
    /\ UNCHANGED funVars
    /\ UNCHANGED cutrVars
    /\ UNCHANGED tailrVars
    /\ UNCHANGED greprVars
    /\ UNCHANGED findFilesVars
    /\ UNCHANGED uniqrVars
    /\ UNCHANGED wcrVars
    /\ UNCHANGED fortunerVars

\* Ordering::Equal: line1 goes to column 3, both lines are consumed
OrderingEqual ==
    /\ pc = "print_line_diffs"
    /\ i1 < Len(lines1)
    /\ i2 < Len(lines2)
    /\ LET line1 == compared_line(lines1[i1 + 1], comm_config.val)
           line2 == compared_line(lines2[i2 + 1], comm_config.val)
       IN /\ str_cmp(line1, line2) = "Equal"
          /\ comm_log' = Append(comm_log, Printed(3, line1, comm_config.val))
    /\ i1' = i1 + 1
    /\ i2' = i2 + 1
    /\ UNCHANGED <<pc, lines1, lines2, comm_config>>
    /\ UNCHANGED funVars
    /\ UNCHANGED cutrVars
    /\ UNCHANGED tailrVars
    /\ UNCHANGED greprVars
    /\ UNCHANGED findFilesVars
    /\ UNCHANGED uniqrVars
    /\ UNCHANGED wcrVars
    /\ UNCHANGED fortunerVars

\* the condition of the while loop is false: print_line_diffs returns
DiffsPrinted ==
    /\ pc = "print_line_diffs"
    /\ ~(i1 < Len(lines1) \/ i2 < Len(lines2))
    /\ pc' = "diffs_printed"
    /\ UNCHANGED <<lines1, lines2, comm_config, i1, i2, comm_log>>
    /\ UNCHANGED funVars
    /\ UNCHANGED cutrVars
    /\ UNCHANGED tailrVars
    /\ UNCHANGED greprVars
    /\ UNCHANGED findFilesVars
    /\ UNCHANGED uniqrVars
    /\ UNCHANGED wcrVars
    /\ UNCHANGED fortunerVars

NextPrintLineDiffs ==
    \/ RestOfLines2
    \/ RestOfLines1
    \/ OrderingLess
    \/ OrderingGreater
    \/ OrderingEqual
    \/ DiffsPrinted

SpecPrintLineDiffs == InitPrintLineDiffs /\ [][NextPrintLineDiffs]_vars

\* the loop runs on its own: no step of it waits for anything
FairPrintLineDiffs == SpecPrintLineDiffs /\ WF_vars(NextPrintLineDiffs)

----------------------------------------------------------------------------
(* wcr: the program *)

FileInfo(l, w, b, c) ==
    [num_lines |-> l, num_words |-> w, num_bytes |-> b, num_chars |-> c]

\* Config::parse(): the group "mode" admits at most one of --chars, --bytes
wc_parse(a) ==
    IF a.chars /\ a.bytes
    THEN Err(<<"error: the argument cannot be used with another of group mode">>)
    ELSE Ok(a)

\* get_args: without any of the four flags, lines, words and bytes are set
get_args(a) ==
    IF ~a.lines /\ ~a.words /\ ~a.bytes /\ ~a.chars
    THEN [a EXCEPT !.lines = TRUE, !.words = TRUE, !.bytes = TRUE]
    ELSE a

\* format!("{:>7}", n)
count_field(n) == pad_left(ToDecimal(n), 7)

compose_message(file_info, cfg) ==
    LET shown == (IF cfg.lines THEN <<count_field(file_info.num_lines)>> ELSE <<>>)
                 \o (IF cfg.words THEN <<count_field(file_info.num_words)>> ELSE <<>>)
                 \o (IF cfg.bytes THEN <<count_field(file_info.num_bytes)>> ELSE <<>>)
                 \o (IF cfg.chars THEN <<count_field(file_info.num_chars)>> ELSE <<>>)
    IN <<" ">> \o Join(shown, <<" ">>)

\* the sum of two FileInfo, as run adds to totals
add_totals(t, file_info) ==
    FileInfo(t.num_lines + file_info.num_lines, t.num_words + file_info.num_words,
             t.num_bytes + file_info.num_bytes, t.num_chars + file_info.num_chars)

----------------------------------------------------------------------------
(* Specification of wcr: every combination of the four flags, 1..MaxFiles  *)
(* files, each of which opens or not and has the counts of one of WcCounts *)

WcCounts == {FileInfo(0, 0, 0, 0), FileInfo(1, 2, 4, 3)}

WcCommandLines ==
    [files : {[i \in 1..n |-> FileName(i)] : n \in 1..MaxFiles},
     lines : BOOLEAN, words : BOOLEAN, bytes : BOOLEAN, chars : BOOLEAN]

InitWcr ==
    /\ pc = "wcr_main"
    /\ FunIdle
    /\ CutrIdle
    /\ TailrIdle
    /\ GreprIdle
    /\ FindFilesIdle
    /\ UniqrIdle
    /\ CommrIdle
    /\ wc_args \in {Some(a) : a \in WcCommandLines}
    /\ wc_config = None
    /\ wc_idx = 0
    /\ num_files = 0
    /\ totals = None
    /\ wc_out = <<>>
    /\ wc_err = <<>>
    /\ FortunerIdle

\* main: Config::parse() ends the process with the usage error
WcClapRejects ==
    /\ pc = "wcr_main"
    /\ ~wc_parse(wc_args.val).ok
    /\ wc_err' = Append(wc_err, wc_parse(wc_args.val).err)
    /\ pc' = "wcr_exited"
    /\ UNCHANGED <<wc_args, wc_config, wc_idx, num_files, totals, wc_out>>
    /\ UNCHANGED funVars
    /\ UNCHANGED cutrVars
    /\ UNCHANGED tailrVars
    /\ UNCHANGED greprVars
    /\ UNCHANGED findFilesVars
    /\ UNCHANGED uniqrVars
    /\ UNCHANGED commrVars
    /\ UNCHANGED fortunerVars

\* main: run(&Config::parse()) is entered with the parsed flags as given
WcRun ==
    /\ pc = "wcr_main"
    /\ wc_parse(wc_args.val).ok
    /\ wc_config' = Some(wc_parse(wc_args.val).val)
    /\ totals' = Some(FileInfo(0, 0, 0, 0))
    /\ pc' = "wcr_run"
    /\ UNCHANGED <<wc_args, wc_idx, num_files, wc_out, wc_err>>
    /\ UNCHANGED funVars
    /\ UNCHANGED cutrVars
    /\ UNCHANGED tailrVars
    /\ UNCHANGED greprVars
    /\ UNCHANGED findFilesVars
    /\ UNCHANGED uniqrVars
    /\ UNCHANGED commrVars
    /\ UNCHANGED fortunerVars

\* run: open(filename) fails; the error is printed and the loop goes on
WcOpenFails ==
    /\ pc = "wcr_run"
    /\ wc_idx < Len(wc_config.val.files)
    /\ wc_err' = Append(wc_err, wc_config.val.files[wc_idx + 1] \o <<": ">> \o OpenError)
    /\ wc_idx' = wc_idx + 1
    /\ UNCHANGED <<pc, wc_args, wc_config, num_files, totals, wc_out>>
    /\ UNCHANGED funVars
    /\ UNCHANGED cutrVars
    /\ UNCHANGED tailrVars
    /\ UNCHANGED greprVars
    /\ UNCHANGED findFilesVars
    /\ UNCHANGED uniqrVars
    /\ UNCHANGED commrVars
    /\ UNCHANGED fortunerVars

\* run: the file is opened and counted, and its report is printed
WcReportFile ==
    /\ pc = "wcr_run"
    /\ wc_idx < Len(wc_config.val.files)
    /\ \E file_info \in WcCounts :
          /\ totals' = Some(add_totals(totals.val, file_info))
          /\ wc_out' = Append(wc_out,
                 [info |-> file_info,
                  text |-> compose_message(file_info, wc_config.val)
                           \o <<" ">> \o wc_config.val.files[wc_idx + 1]])
    /\ num_files' = num_files + 1
    /\ wc_idx' = wc_idx + 1
    /\ UNCHANGED <<pc, wc_args, wc_config, wc_err>>
    /\ UNCHANGED funVars
    /\ UNCHANGED cutrVars
    /\ UNCHANGED tailrVars
    /\ UNCHANGED greprVars
    /\ UNCHANGED findFilesVars
    /\ UNCHANGED uniqrVars
    /\ UNCHANGED commrVars
    /\ UNCHANGED fortunerVars

\* run: after the loop the totals are printed for more than one file
WcReturns ==
    /\ pc = "wcr_run"
    /\ wc_idx = Len(wc_config.val.files)
    /\ wc_out' = IF num_files > 1
                 THEN Append(wc_out,
                         [info |-> totals.val,
                          text |-> compose_message(totals.val, wc_config.val)
                                   \o <<" total">>])
                 ELSE wc_out
    /\ pc' = "wcr_exited"
    /\ UNCHANGED <<wc_args, wc_config, wc_idx, num_files, totals, wc_err>>
    /\ UNCHANGED funVars
    /\ UNCHANGED cutrVars
    /\ UNCHANGED tailrVars
    /\ UNCHANGED greprVars
    /\ UNCHANGED findFilesVars
    /\ UNCHANGED uniqrVars
    /\ UNCHANGED commrVars
    /\ UNCHANGED fortunerVars

NextWcr ==
    \/ WcClapRejects
    \/ WcRun
    \/ WcOpenFails
    \/ WcReportFile
    \/ WcReturns

SpecWcr == InitWcr /\ [][NextWcr]_vars

----------------------------------------------------------------------------
(* fortuner: Config::find_fortune_in_file *)

\* most lines of a fortune file
MaxFortuneLines == 4

\* the item BufRead::lines yields for a line of the file: the text without
\* its "\n", and without a "\r" standing before that "\n"
lines_item(raw) ==
    IF raw # <<>> /\ raw[Len(raw)] = "\n"
    THEN LET t == SubSeq(raw, 1, Len(raw) - 1)
         IN  IF t # <<>> /\ t[Len(t)] = "\r"
             THEN SubSeq(t, 1, Len(t) - 1)
             ELSE t
    ELSE raw

\* the files: lines that end in a newline, and after them possibly a last
\* line without one
FortuneFiles ==
    LET terminated ==
            {TextLine(<<"\n">>), TextLine(<<"%", "\n">>), TextLine(<<"a", "\n">>),
             TextLine(<<"a", "%", "\n">>), TextLine(<<"%", "\r", "\n">>),
             InvalidLine}
        unterminated ==
            {TextLine(<<"%">>), TextLine(<<"a">>), TextLine(<<"%", "\r">>)}
        head(n) == [1..n -> terminated]
    IN  UNION {head(n) : n \in 0..MaxFortuneLines}
        \cup UNION {{h \o <<u>> : h \in head(n), u \in unterminated} :
                       n \in 0..(MaxFortuneLines - 1)}

FortunePatterns == {<<"a">>, <<"%">>, <<"a", "%">>}

InitFindFortune ==
    /\ pc = "find_fortune_in_file"
    /\ FunIdle
    /\ CutrIdle
    /\ TailrIdle
    /\ GreprIdle
    /\ FindFilesIdle
    /\ UniqrIdle
    /\ CommrIdle
    /\ WcrIdle
    /\ fortune_file \in {None} \cup {Some(f) : f \in FortuneFiles}
    /\ fortune_regex \in FortunePatterns
    /\ fortune_idx = 0
    /\ fortune_record = <<>>
    /\ match_found = FALSE
    /\ file_name_printed = FALSE
    /\ fortune_out = <<>>
    /\ fortune_err = <<>>
    /\ fortune_result = None

\* File::open fails: the error "<file_path>: <e>" is returned
FortuneOpenFails ==
    /\ pc = "find_fortune_in_file"
    /\ fortune_file = None
    /\ fortune_result' = Some(Err(<<"fortunes", ": ">> \o OpenError))
    /\ pc' = "fortune_returned"
    /\ UNCHANGED <<fortune_file, fortune_regex, fortune_idx, fortune_record,
                   match_found, file_name_printed, fortune_out, fortune_err>>
    /\ UNCHANGED funVars
    /\ UNCHANGED cutrVars
    /\ UNCHANGED tailrVars
    /\ UNCHANGED greprVars
    /\ UNCHANGED findFilesVars
    /\ UNCHANGED uniqrVars
    /\ UNCHANGED commrVars
    /\ UNCHANGED wcrVars

\* File::open succeeds: the locals are set and the loop begins
FortuneOpenSucceeds ==
    /\ pc = "find_fortune_in_file"
    /\ fortune_file # None
    /\ fortune_record' = <<>>
    /\ match_found' = FALSE
    /\ file_name_printed' = FALSE
    /\ pc' = "fortune_lines"
    /\ UNCHANGED <<fortune_file, fortune_regex, fortune_idx, fortune_out,
                   fortune_err, fortune_result>>
    /\ UNCHANGED funVars
    /\ UNCHANGED cutrVars
    /\ UNCHANGED tailrVars
    /\ UNCHANGED greprVars
    /\ UNCHANGED findFilesVars
    /\ UNCHANGED uniqrVars
    /\ UNCHANGED commrVars
    /\ UNCHANGED wcrVars

\* the next item of reader.lines(), while there is one
FortuneNextRaw == fortune_file.val[fortune_idx + 1]

FortuneNextLine == lines_item(FortuneNextRaw.text)

\* `line?` for a line that cannot be read: the error is returned
FortuneReadFails ==
    /\ pc = "fortune_lines"
    /\ fortune_idx < Len(fortune_file.val)
    /\ ~FortuneNextRaw.utf8
    /\ fortune_idx' = fortune_idx + 1
    /\ fortune_result' = Some(Err(<<"stream did not contain valid UTF-8">>))
    /\ pc' = "fortune_returned"
    /\ UNCHANGED <<fortune_file, fortune_regex, fortune_record, match_found,
                   file_name_printed, fortune_out, fortune_err>>
    /\ UNCHANGED funVars
    /\ UNCHANGED cutrVars
    /\ UNCHANGED tailrVars
    /\ UNCHANGED greprVars
    /\ UNCHANGED findFilesVars
    /\ UNCHANGED uniqrVars
    /\ UNCHANGED commrVars
    /\ UNCHANGED wcrVars

\* an iteration for a line other than "%": the match is noted and the line
\* joins the record
FortuneLine ==
    /\ pc = "fortune_lines"
    /\ fortune_idx < Len(fortune_file.val)
    /\ FortuneNextRaw.utf8
    /\ FortuneNextLine # <<"%">>
    /\ fortune_idx' = fortune_idx + 1
    /\ match_found' = (match_found \/ is_match(fortune_regex, FortuneNextLine))
    /\ fortune_record' = Append(fortune_record, FortuneNextLine)
    /\ UNCHANGED <<pc, fortune_file, fortune_regex, file_name_printed,
                   fortune_out, fortune_err, fortune_result>>
    /\ UNCHANGED funVars
    /\ UNCHANGED cutrVars
    /\ UNCHANGED tailrVars
    /\ UNCHANGED greprVars
    /\ UNCHANGED findFilesVars
    /\ UNCHANGED uniqrVars
    /\ UNCHANGED commrVars
    /\ UNCHANGED wcrVars

\* mutant of FortuneRecordSkipped: match_found is not reset
FortuneRecordSkipped_KeepsFlag ==
    /\ pc = "fortune_lines"
    /\ fortune_idx < Len(fortune_file.val)
    /\ FortuneNextRaw.utf8
    /\ FortuneNextLine = <<"%">>
    /\ ~(match_found \/ is_match(fortune_regex, FortuneNextLine))
    /\ fortune_idx' = fortune_idx + 1
    /\ fortune_record' = <<>>
    /\ match_found' = TRUE
    /\ UNCHANGED <<pc, fortune_file, fortune_regex, file_name_printed,
                   fortune_out, fortune_err, fortune_result>>
    /\ UNCHANGED funVars
    /\ UNCHANGED cutrVars
    /\ UNCHANGED tailrVars
    /\ UNCHANGED greprVars
    /\ UNCHANGED findFilesVars
    /\ UNCHANGED uniqrVars
    /\ UNCHANGED commrVars
    /\ UNCHANGED wcrVars

\* an iteration for the line "%" of a record without a match: the record is
\* dropped, and the record and the flags are reset
FortuneRecordSkipped ==
    /\ pc = "fortune_lines"
    /\ fortune_idx < Len(fortune_file.val)
    /\ FortuneNextRaw.utf8
    /\ FortuneNextLine = <<"%">>
    /\ ~(match_found \/ is_match(fortune_regex, FortuneNextLine))
    /\ fortune_idx' = fortune_idx + 1
    /\ fortune_record' = <<>>
    /\ match_found' = FALSE
    /\ UNCHANGED <<pc, fortune_file, fortune_regex, file_name_printed,
                   fortune_out, fortune_err, fortune_result>>
    /\ UNCHANGED funVars
    /\ UNCHANGED cutrVars
    /\ UNCHANGED tailrVars
    /\ UNCHANGED greprVars
    /\ UNCHANGED findFilesVars
    /\ UNCHANGED uniqrVars
    /\ UNCHANGED commrVars
    /\ UNCHANGED wcrVars

\* an iteration for the line "%" of a record with a match: the file name is
\* shown once on standard error, the lines of the record are printed, and the
\* record and the flags are reset
FortuneRecordPrinted ==
    /\ pc = "fortune_lines"
    /\ fortune_idx < Len(fortune_file.val)
    /\ FortuneNextRaw.utf8
    /\ FortuneNextLine = <<"%">>
    /\ match_found \/ is_match(fortune_regex, FortuneNextLine)
    /\ fortune_idx' = fortune_idx + 1
    /\ fortune_err' = IF file_name_printed
                      THEN fortune_err
                      ELSE fortune_err
                             \o << <<"(", "fortunes", ")">>, <<"%">> >>
    /\ file_name_printed' = TRUE
    /\ fortune_out' = fortune_out \o Append(fortune_record, FortuneNextLine)
    /\ fortune_record' = <<>>
    /\ match_found' = FALSE
    /\ UNCHANGED <<pc, fortune_file, fortune_regex, fortune_result>>
    /\ UNCHANGED funVars
    /\ UNCHANGED cutrVars
    /\ UNCHANGED tailrVars
    /\ UNCHANGED greprVars
    /\ UNCHANGED findFilesVars
    /\ UNCHANGED uniqrVars
    /\ UNCHANGED commrVars
    /\ UNCHANGED wcrVars

\* reader.lines() is exhausted: Ok(()) is returned
FortuneReturns ==
    /\ pc = "fortune_lines"
    /\ fortune_idx = Len(fortune_file.val)
    /\ fortune_result' = Some(Ok(<<>>))
    /\ pc' = "fortune_returned"
    /\ UNCHANGED <<fortune_file, fortune_regex, fortune_idx, fortune_record,
                   match_found, file_name_printed, fortune_out, fortune_err>>
    /\ UNCHANGED funVars
    /\ UNCHANGED cutrVars
    /\ UNCHANGED tailrVars
    /\ UNCHANGED greprVars
    /\ UNCHANGED findFilesVars
    /\ UNCHANGED uniqrVars
    /\ UNCHANGED commrVars
    /\ UNCHANGED wcrVars

NextFindFortune ==
    \/ FortuneOpenFails
    \/ FortuneOpenSucceeds
    \/ FortuneReadFails
    \/ FortuneLine
    \/ FortuneRecordSkipped
    \/ FortuneRecordPrinted
    \/ FortuneReturns

SpecFindFortune == InitFindFortune /\ [][NextFindFortune]_vars

----------------------------------------------------------------------------
(* Properties of parse_pos *)

\* the tokens of the range-list text
Tokens == SplitComma(range)

\* the decimal value of a text of ASCII digits
RECURSIVE DecVal(_)
DecVal(s) ==
    IF s = <<>> THEN 0
    ELSE 10 * DecVal(SubSeq(s, 1, Len(s) - 1)) + DigitVal(s[Len(s)])

\* a number as the parser reads one: ASCII digits, a value that fits usize
IsNumber(s) ==
    /\ Len(s) >= 1
    /\ \A i \in 1..Len(s) : IsAsciiDigit(s[i])
    /\ DecVal(s) <= UsizeMax

\* t is the text n of a single position
IsPosition(t) == IsNumber(t)

\* t is the text a-b of a range
IsRangeToken(t) ==
    \E i \in 1..Len(t) :
        /\ t[i] = "-"
        /\ IsNumber(SubSeq(t, 1, i - 1))
        /\ IsNumber(SubSeq(t, i + 1, Len(t)))

HyphenAt(t) == CHOOSE i \in 1..Len(t) : t[i] = "-"
FirstNumber(t) == DecVal(SubSeq(t, 1, HyphenAt(t) - 1))
SecondNumber(t) == DecVal(SubSeq(t, HyphenAt(t) + 1, Len(t)))

\* the range a valid token stands for
ValidToken(t) ==
    \/ IsPosition(t) /\ DecVal(t) >= 1
    \/ IsRangeToken(t) /\ 1 <= FirstNumber(t) /\ FirstNumber(t) < SecondNumber(t)

RangeOfToken(t) ==
    IF IsPosition(t) THEN Rng(DecVal(t) - 1, DecVal(t))
    ELSE Rng(FirstNumber(t) - 1, SecondNumber(t))

\* every token before the i-th is valid, so the i-th decides the result
EarlierValid(i) == \A j \in 1..(i - 1) : ValidToken(Tokens[j])

\* the token has one of the two shapes of the grammar ^\d+$ and ^\d+-\d+$
MatchesGrammar(t) ==
    \/ AllDigits(t)
    \/ \E i \in 1..Len(t) :
          /\ t[i] = "-"
          /\ AllDigits(SubSeq(t, 1, i - 1))
          /\ AllDigits(SubSeq(t, i + 1, Len(t)))

IllegalListValue(text) == <<"illegal list value: \"">> \o text \o <<"\"">>

RangeOrderError(a, b) ==
    <<"First number in range (">> \o ToDecimal(a)
    \o <<") must be lower than second number (">> \o ToDecimal(b) \o <<")">>

Parsed == pc = "parsed"

\* C1: a text whose tokens are all valid (a position n >= 1, or a range a-b
\* with 1 <= a < b, leading zeros allowed, the numbers being usize values)
\* parses to the ranges (n-1)..n and (a-1)..b of its tokens.
C1_ValidTokenConverts ==
    (Parsed /\ \A i \in 1..Len(Tokens) : ValidToken(Tokens[i]))
        => parsed.val = Ok([i \in 1..Len(Tokens) |-> RangeOfToken(Tokens[i])])

\* a range with leading zeros on both sides has been converted
C1_Witness ==
    /\ Parsed
    /\ range = <<"0", "1", "-", "0", "2">>
    /\ parsed.val = Ok(<<Rng(0, 2)>>)

\* C2 as stated: every range token a-b with a >= b fails with the
\* range-order error citing (a, b).
C2_Original ==
    Parsed =>
        \A i \in 1..Len(Tokens) :
            (/\ EarlierValid(i)
             /\ IsRangeToken(Tokens[i])
             /\ FirstNumber(Tokens[i]) >= SecondNumber(Tokens[i]))
            => parsed.val = Err(RangeOrderError(FirstNumber(Tokens[i]),
                                                SecondNumber(Tokens[i])))

\* C2 (amended): every range token a-b with a >= 1 and a >= b fails with the
\* range-order error citing exactly (a, b); a range starting at 0 fails with
\* the illegal-list-value error instead.
C2_RangeOrderError ==
    Parsed =>
        \A i \in 1..Len(Tokens) :
            (/\ EarlierValid(i)
             /\ IsRangeToken(Tokens[i])
             /\ FirstNumber(Tokens[i]) >= 1
             /\ FirstNumber(Tokens[i]) >= SecondNumber(Tokens[i]))
            => parsed.val = Err(RangeOrderError(FirstNumber(Tokens[i]),
                                                SecondNumber(Tokens[i])))

\* equal endpoints written with a leading zero are rejected, citing (1, 1)
C2_Witness ==
    /\ Parsed
    /\ range = <<"0", "1", "-", "1">>
    /\ parsed.val = Err(RangeOrderError(1, 1))

\* C3: a token of neither shape of the grammar fails the parse with
\* illegal list value: "<token>", the token's own text.
C3_MalformedTokenEchoed ==
    Parsed =>
        \A i \in 1..Len(Tokens) :
            (EarlierValid(i) /\ ~MatchesGrammar(Tokens[i]))
            => parsed.val = Err(IllegalListValue(Tokens[i]))

\* a trailing hyphen after a valid token is reported with its text
C3_Witness ==
    /\ Parsed
    /\ range = <<"2", ",", "1", "-">>
    /\ parsed.val = Err(IllegalListValue(<<"1", "-">>))

\* C4: a token whose first number is 0 (a position, or the start of a
\* range) is rejected with illegal list value: "0", the parsed value and not
\* the token's text.
C4_ZeroEchoesParsedValue ==
    Parsed =>
        \A i \in 1..Len(Tokens) :
            (/\ EarlierValid(i)
             /\ MatchesGrammar(Tokens[i])
             /\ \/ IsPosition(Tokens[i]) /\ DecVal(Tokens[i]) = 0
                \/ /\ \E k \in 1..Len(Tokens[i]) : Tokens[i][k] = "-"
                   /\ IsNumber(SubSeq(Tokens[i], 1, HyphenAt(Tokens[i]) - 1))
                   /\ FirstNumber(Tokens[i]) = 0)
            => parsed.val = Err(IllegalListValue(<<"0">>))

\* the token "00" is reported as "0"
C4_Witness ==
    /\ Parsed
    /\ range = <<"0", "0">>
    /\ parsed.val = Err(IllegalListValue(<<"0">>))

\* C5: the parse succeeds exactly when every token converts on its own, and
\* a failed parse carries an error and no ranges.
C5_AllOrNothing ==
    Parsed =>
        /\ parsed.val.ok <=> \A i \in 1..Len(Tokens) : interval_to_range(Tokens[i]).ok
        /\ ~parsed.val.ok => DOMAIN parsed.val = {"ok", "err"}

\* a valid token followed by a trailing comma fails as a whole
C5_Witness ==
    /\ Parsed
    /\ range = <<"1", "-", "2", ",">>
    /\ ~parsed.val.ok

\* C6: a successful parse of k tokens has k ranges, the i-th being the
\* conversion of the i-th token: nothing is sorted, merged or dropped.
C6_OrderPreserved ==
    (Parsed /\ parsed.val.ok) =>
        /\ Len(parsed.val.val) = Len(Tokens)
        /\ \A i \in 1..Len(Tokens) :
              parsed.val.val[i] = interval_to_range(Tokens[i]).val

\* a later token that starts lower and overlaps the first is kept in place
C6_Witness ==
    /\ Parsed
    /\ range = <<"2", ",", "1", "-", "2">>
    /\ parsed.val = Ok(<<Rng(1, 2), Rng(0, 2)>>)

\* C7: every range of a successful parse has start < end.
C7_RangesNonEmpty ==
    (Parsed /\ parsed.val.ok) =>
        \A i \in 1..Len(parsed.val.val) :
            parsed.val.val[i].start < parsed.val.val[i].end

\* a parsed list holding a range and a single position
C7_Witness ==
    /\ Parsed
    /\ parsed.val.ok
    /\ Len(parsed.val.val) = 2
    /\ range = <<"1", "-", "2", ",", "2">>

----------------------------------------------------------------------------
(* Properties of the extraction *)

Extracted == pc = "extracted"

Min(a, b) == IF a <= b THEN a ELSE b

\* the elements of seq at the indices i with rng.start <= i < rng.end and
\* i < Len(seq), in index order
InBounds(seq, rng) ==
    LET last == Min(rng.end, Len(seq))
    IN IF rng.start < last THEN Slice(seq, rng.start, last) ELSE <<>>

\* the number of elements of seq equal to v
Count(seq, v) == Cardinality({i \in 1..Len(seq) : seq[i] = v})

\* the number of in-bounds indices of seq that hold v, counted once for each
\* range of the list that covers the index
Covered(seq, ranges, v) ==
    Cardinality({<<k, i>> \in (1..Len(ranges)) \X (0..(Len(seq) - 1)) :
                    /\ ranges[k].start <= i
                    /\ i < ranges[k].end
                    /\ seq[i + 1] = v})

\* C8: in character and byte mode the output holds, for each range, the
\* element at every index of the range that lies inside the line; only the
\* indices at or beyond the end of the line are skipped.
C8_CharsBytesInBounds ==
    Extracted =>
        /\ extract.kind = "Chars" =>
              extracted.val =
                  Concat([k \in 1..Len(extract.positions) |->
                             InBounds(str_chars(line), extract.positions[k])])
        /\ extract.kind = "Bytes" =>
              extracted.val =
                  Concat([k \in 1..Len(extract.positions) |->
                             from_utf8_lossy(InBounds(str_bytes(line),
                                                      extract.positions[k]))])

\* C9: in field mode the output holds, for each range, the field at every
\* index of the range that lies inside the record, and nothing for the
\* indices at or beyond its end.
C9_FieldsInBounds ==
    (Extracted /\ extract.kind = "Fields") =>
        extracted.val =
            Concat([k \in 1..Len(extract.positions) |->
                       InBounds(record, extract.positions[k])])

\* a range that begins inside the record and ends past it gives its fields
C9_Witness ==
    /\ Extracted
    /\ extract = [kind |-> "Fields", positions |-> <<Rng(1, 3)>>]
    /\ record = <<"A", "B">>
    /\ extracted.val = <<"B">>

\* the selection of one range, by the mode of the extraction
Selection(rng) ==
    CASE extract.kind = "Chars" -> chars_in_range(str_chars(line), rng)
      [] extract.kind = "Bytes" -> bytes_in_range(str_bytes(line), rng)
      [] extract.kind = "Fields" -> fields_in_range(record, rng)

\* the output is the selections of the ranges, in the order of the list
InRangeOrder ==
    extracted.val = Concat([k \in 1..Len(extract.positions) |->
                               Selection(extract.positions[k])])

\* the elements the ranges index: bytes in byte mode, fields in field mode,
\* characters in character mode
Elements ==
    CASE extract.kind = "Chars" -> str_chars(line)
      [] extract.kind = "Bytes" -> str_bytes(line)
      [] extract.kind = "Fields" -> record

\* some element is covered by more than one range of the list
SeveralCover ==
    \E i \in 0..(Len(Elements) - 1) :
        \E j, k \in 1..Len(extract.positions) :
            /\ j # k
            /\ extract.positions[j].start <= i /\ i < extract.positions[j].end
            /\ extract.positions[k].start <= i /\ i < extract.positions[k].end

\* an element appears in the output once for each range that covers it (a
\* byte is counted through the characters its range decodes to)
OncePerCoveringRange ==
    /\ extract.kind = "Chars" =>
          \A v \in LineAlphabet :
              Count(extracted.val, v) = Covered(Elements, extract.positions, v)
    /\ extract.kind = "Fields" =>
          \A v \in FieldAlphabet :
              Count(extracted.val, v) = Covered(Elements, extract.positions, v)
    /\ extract.kind = "Bytes" =>
          Len(extracted.val) =
              Len(Concat([k \in 1..Len(extract.positions) |->
                             from_utf8_lossy(InBounds(Elements,
                                                      extract.positions[k]))]))

\* C10: in all three modes the output is the concatenation, in the order of
\* the range list, of the selections of the ranges, and an element covered
\* by several ranges appears once for each range that covers it.
C10_RangeOrderAndRepetition ==
    Extracted =>
        /\ InRangeOrder
        /\ SeveralCover => OncePerCoveringRange

\* C11: the extraction is total: no line or record, the empty one included,
\* and no range list makes it index out of bounds, every extraction returns
\* a value, and a range lying entirely beyond the end contributes nothing.
C11_ExtractionTotal ==
    /\ pc # "panicked"
    /\ Extracted =>
          /\ extracted.some
          /\ \A k \in 1..Len(extract.positions) :
                extract.positions[k].start >= Len(Elements)
                    => Selection(extract.positions[k]) = <<>>
          /\ (\A k \in 1..Len(extract.positions) :
                 extract.positions[k].start >= Len(Elements))
                => extracted.val = <<>>

\* the range 0..1 on the empty line gives the empty text
C11_Witness ==
    /\ Extracted
    /\ extract = [kind |-> "Chars", positions |-> <<Rng(0, 1)>>]
    /\ line = <<>>
    /\ extracted = Some(<<>>)

\* C12: in character mode a range [i, j) within the line yields the i-th to
\* the (j-1)-th characters of the line, whole, whatever their byte widths.
C12_CharsAreCodePoints ==
    (/\ Extracted
     /\ extract.kind = "Chars"
     /\ \A k \in 1..Len(extract.positions) : extract.positions[k].end <= Len(line))
    => /\ extracted.val =
              Concat([k \in 1..Len(extract.positions) |->
                         [n \in 1..(extract.positions[k].end - extract.positions[k].start)
                             |-> line[extract.positions[k].start + n]]])
       /\ \A n \in 1..Len(extracted.val) : extracted.val[n] \in LineAlphabet

\* the range 1..2 after a two-byte character gives the second character
C12_Witness ==
    /\ Extracted
    /\ extract = [kind |-> "Chars", positions |-> <<Rng(1, 2)>>]
    /\ line = <<"U+00E1", "b">>
    /\ extracted = Some(<<"b">>)

\* what byte mode is to print of the text ln, whose first byte has offset
\* off, for the bytes at the offsets s <= i < e: a character all of whose
\* bytes are selected is printed as it is, each selected byte of a character
\* selected in part is printed as U+FFFD
RECURSIVE Rendered(_, _, _, _)
Rendered(ln, off, s, e) ==
    IF ln = <<>> THEN <<>>
    ELSE LET w == Len(Utf8(Head(ln)))
             inside == Cardinality({i \in off..(off + w - 1) : s <= i /\ i < e})
         IN (IF inside = w THEN <<Head(ln)>> ELSE [n \in 1..inside |-> "U+FFFD"])
            \o Rendered(Tail(ln), off + w, s, e)

\* some range of the list selects a part of the bytes of a character
CutsCharacter ==
    \E k \in 1..Len(extract.positions) :
        LET out == Rendered(line, 0, extract.positions[k].start,
                            extract.positions[k].end)
        IN \E n \in 1..Len(out) : out[n] = "U+FFFD"

\* C13: in byte mode a range never fails, the bytes it selects of a
\* character it cuts through are printed as the replacement character, and
\* every character wholly inside the range is printed unchanged.
C13_BytesCutCharacters ==
    /\ pc # "panicked"
    /\ (Extracted /\ extract.kind = "Bytes" /\ CutsCharacter) =>
          extracted.val =
              Concat([k \in 1..Len(extract.positions) |->
                         Rendered(line, 0, extract.positions[k].start,
                                  extract.positions[k].end)])

----------------------------------------------------------------------------
(* Properties of the cutr program *)

ModeFlags == {"field_positions", "byte_positions", "char_positions"}

\* the source flags given on the command line
GivenModes == {f \in ModeFlags : args[f].some}

\* the Extract variant that belongs to a source flag
KindOfFlag(f) ==
    CASE f = "field_positions" -> "Fields"
      [] f = "byte_positions" -> "Bytes"
      [] f = "char_positions" -> "Chars"

\* the process has ended with a status other than 0
ExitedNonZero == pc = "exited" /\ exit_code.some /\ exit_code.val # 0

\* C14: a Config exists only when exactly one of --fields, --bytes and
\* --chars was given, and its Extract variant is the one of that flag; with
\* no flag the configuration fails with "Must have --fields, --bytes, or
\* --chars", with more than one flag it is rejected.
C14_ExactlyOneMode ==
    /\ config.some =>
          /\ Cardinality(GivenModes) = 1
          /\ \A f \in GivenModes : config.val.extract.kind = KindOfFlag(f)
    /\ (pc # "main" /\ GivenModes = {}) =>
          /\ ~config.some
          /\ ExitedNonZero
          /\ stderr = <<(<<"Must have --fields, --bytes, or --chars">>)>>
    /\ (pc # "main" /\ Cardinality(GivenModes) > 1) =>
          /\ ~config.some
          /\ ExitedNonZero

C14_Witness ==
    /\ config.some
    /\ GivenModes = {"char_positions"}
    /\ config.val.extract.kind = "Chars"

\* the delimiter given is encoded in exactly one byte
OneByteDelimiter == Len(str_bytes(args.delimiter)) = 1

DelimiterError ==
    <<"--delim \"">> \o args.delimiter \o <<"\" must be a single byte">>

\* C15: a delimiter is accepted only when its encoding is one byte; an empty
\* delimiter, one of several characters and one character of several bytes
\* are rejected by get_delimiter with --delim "<value>" must be a single
\* byte, which is the error of the command line that selects one mode, and
\* no Config is built.
C15_DelimiterOneByte ==
    /\ get_delimiter(args).ok <=> OneByteDelimiter
    /\ ~OneByteDelimiter =>
          /\ get_delimiter(args) = Err(DelimiterError)
          /\ ~config.some
          /\ (pc # "main" /\ Cardinality(GivenModes) = 1) =>
                ExitedNonZero /\ stderr = <<DelimiterError>>

C15_Witness ==
    /\ args.delimiter = <<"U+00E1">>
    /\ Cardinality(GivenModes) = 1
    /\ pc = "exited"
    /\ stderr = <<(<<"--delim \"", "U+00E1", "\" must be a single byte">>)>>

\* the text of a range list is well formed: every token is valid
WellFormed(text) ==
    \A i \in 1..Len(SplitComma(text)) : ValidToken(SplitComma(text)[i])

\* the command line has one of the configuration errors
ConfigError ==
    \/ GivenModes = {}
    \/ ~OneByteDelimiter
    \/ \E f \in GivenModes : ~WellFormed(args[f].val)

\* C16: when no mode is selected, the delimiter is invalid or the range list
\* is malformed, the process reports the error and exits non-zero, no file
\* having been opened or read and nothing written to standard output; run is
\* entered only with the Config of a successful get_config.
C16_FailFast ==
    /\ (ConfigError /\ pc # "main") =>
          /\ ExitedNonZero
          /\ Len(stderr) = 1
          /\ io_log = <<>>
          /\ stdout = <<>>
          /\ ~config.some
    /\ pc \in {"run", "file"} => config.some /\ ~ConfigError
    /\ (io_log # <<>> \/ stdout # <<>>) => config.some /\ ~ConfigError

C16_Witness ==
    /\ GivenModes = {"field_positions"}
    /\ args.field_positions.val = <<"a">>
    /\ OneByteDelimiter
    /\ ExitedNonZero
    /\ io_log = <<>>

\* run has been entered
Running == config.some

\* run has returned
RunReturned == config.some /\ pc = "exited"

\* the positions in the log of the opens that failed
FailedOpens == {k \in 1..Len(io_log) : io_log[k].op = "open failed"}

\* the positions in the log of the attempts to open a file
OpenAttempts == {k \in 1..Len(io_log) : io_log[k].op \in {"open", "open failed"}}

\* the diagnostic of a file that cannot be opened
Diagnostic(filename) == filename \o <<": ">> \o OpenError

\* C17: each file that cannot be opened yields one diagnostic
\* "<filename>: <error>" on standard error, every other file is processed,
\* the files are handled in list order, one being finished before the next
\* is opened, and run returns success whatever number of files failed.
C17_RunSurvivesOpenErrors ==
    Running =>
       /\ Len(stderr) = Cardinality(FailedOpens)
       /\ \A k \in FailedOpens :
             stderr[Cardinality({j \in FailedOpens : j <= k})] =
                 Diagnostic(config.val.files[io_log[k].file])
       /\ \A j, k \in 1..Len(io_log) : j < k => io_log[j].file <= io_log[k].file
       /\ \A k \in OpenAttempts :
             \A j \in 1..(k - 1) :
                 /\ io_log[j].file < io_log[k].file
                 /\ io_log[j].op = "open" =>
                       \E m \in (j + 1)..(k - 1) :
                           io_log[m].op = "close" /\ io_log[m].file = io_log[j].file
       /\ RunReturned =>
             /\ exit_code = Some(0)
             /\ {io_log[k].file : k \in OpenAttempts} = 1..Len(config.val.files)
             /\ \A j \in 1..Len(io_log) :
                   io_log[j].op = "open" =>
                       \E m \in (j + 1)..Len(io_log) :
                           io_log[m].op = "close" /\ io_log[m].file = io_log[j].file

C17_Witness ==
    /\ RunReturned
    /\ Len(config.val.files) = 2
    /\ io_log[1] = [op |-> "open failed", file |-> 1]
    /\ io_log[2] = [op |-> "open", file |-> 2]
    /\ \E k \in 1..Len(io_log) : io_log[k].op = "read"
    /\ stderr = <<(<<"f", "1", ": ", "No such file or directory (os error 2)">>)>>
    /\ exit_code = Some(0)

\* the positions in the log of the lines (headers, records) read
Reads == {k \in 1..Len(io_log) : io_log[k].op = "read"}

\* C18: standard output holds exactly one line for every line read from the
\* opened inputs in byte and character mode, and one for every header or
\* record read in field mode: none is dropped and none is added.
C18_OneLinePerInput ==
    Running => Len(stdout) = Cardinality(Reads)

\* the step reads the first line of an input in field mode
ReadsHeader ==
    /\ pc = "file"
    /\ config.val.extract.kind = "Fields"
    /\ ~reader.val.header_done
    /\ Len(io_log') = Len(io_log) + 1

\* the step is taken in field mode after the header of the input
AfterHeader ==
    /\ pc = "file"
    /\ config.val.extract.kind = "Fields"
    /\ reader.val.header_done

\* the line of a record under the per-index rule: for each range of the list
\* in turn the fields at its indices inside the record, joined by the
\* delimiter
SelectedFields(text) ==
    Join(Concat([k \in 1..Len(config.val.extract.positions) |->
                    InBounds(SplitAt(text, DelimChar(config.val.delimiter)),
                             config.val.extract.positions[k])]),
         <<DelimChar(config.val.delimiter)>>)

\* C19: in field mode the first line of an input is written when it is read,
\* before any record of the input, as the selection of its fields under the
\* range list and the per-index rule of the records; what follows in the
\* input only adds lines after it.
C19_HeaderLikeRecords ==
    [][/\ ReadsHeader =>
            /\ Len(stdout') = Len(stdout) + 1
            /\ SubSeq(stdout', 1, Len(stdout)) = stdout
            /\ io_log'[Len(io_log')].raw.utf8 =>
                  stdout'[Len(stdout')] = SelectedFields(io_log'[Len(io_log')].raw.text)
       /\ AfterHeader =>
            /\ Len(stdout') >= Len(stdout)
            /\ SubSeq(stdout', 1, Len(stdout)) = stdout
            /\ (Len(stdout') > Len(stdout) /\ Len(io_log') > Len(io_log)
                    /\ io_log'[Len(io_log')].op = "read") =>
                  stdout'[Len(stdout')] = SelectedFields(io_log'[Len(io_log')].raw.text)
      ]_vars

----------------------------------------------------------------------------
(* Properties of tailr *)

Indexed == pc = "indexed"

\* the start index the reference gives for an offset and a size
ReferenceIndex(off, sz) ==
    CASE sz = 0 -> None
      [] sz > 0 /\ off.kind = "Start" /\ off.num = 0 -> Some(0)
      [] sz > 0 /\ off.kind = "Start" /\ 1 <= off.num /\ off.num <= sz ->
            Some(off.num - 1)
      [] sz > 0 /\ off.kind = "Start" /\ off.num > sz -> None
      [] sz > 0 /\ off.kind = "End" /\ off.num = 0 -> None
      [] sz > 0 /\ off.kind = "End" /\ 1 <= off.num /\ off.num <= sz ->
            Some(sz - off.num)
      [] sz > 0 /\ off.kind = "End" /\ off.num > sz -> Some(0)

DecimalDigits(text) ==
    Len(text) >= 1 /\ \A i \in 1..Len(text) : IsAsciiDigit(text[i])

\* the value the reference gives for a text
ReferenceOffset(text) ==
    IF Len(text) >= 1 /\ text[1] = "+" /\ DecimalDigits(Tail(text))
          /\ DecVal(Tail(text)) <= U64Max
    THEN Some(Start(DecVal(Tail(text))))
    ELSE IF Len(text) >= 1 /\ text[1] = "-" /\ DecimalDigits(Tail(text))
          /\ DecVal(Tail(text)) <= U64Max
    THEN Some(End(DecVal(Tail(text))))
    ELSE IF DecimalDigits(text) /\ DecVal(text) <= U64Max
    THEN Some(End(DecVal(text)))
    ELSE None

\* C21: parse_offset returns for every text: Some(Start(n)) for '+' and
\* decimal digits, Some(End(n)) for decimal digits with or without a '-'
\* before them, n being the value of the digits, at most the largest u64,
\* and None for every other text; it never aborts.
C21_ParseOffsetTotal ==
    /\ pc # "panicked"
    /\ pc = "offset_parsed" => offset = ReferenceOffset(offset_str)

----------------------------------------------------------------------------
(* Properties of parse_pos: the kinds of error *)

\* e is an error illegal list value: "<text>" or a range order error
IsRangeListError(e) ==
    \/ /\ Len(e) >= 2
       /\ e[1] = "illegal list value: \""
       /\ e[Len(e)] = "\""
    \/ \E a, b \in 0..UsizeMax : e = RangeOrderError(a, b)

\* C24: every failure of parse_pos is an illegal list value error or a range
\* order error, also for tokens of digits whose value does not fit usize.
C24_OnlyRangeListErrors ==
    (Parsed /\ ~parsed.val.ok) => IsRangeListError(parsed.val.err)

----------------------------------------------------------------------------
(* Properties of grepr *)

LinesFound == pc = "lines_found"

\* the lines of the input the pattern selects: in input order, every line
\* of text for which "the pattern matches" differs from invert
RECURSIVE SelectedLines(_, _, _)
SelectedLines(file, pat, invert) ==
    IF file = <<>> THEN <<>>
    ELSE LET rest == SelectedLines(Tail(file), pat, invert)
         IN IF Head(file).utf8 /\ (is_match(pat, Head(file).text) # invert)
            THEN <<Head(file).text>> \o rest
            ELSE rest

\* C22: find_lines returns, in input order, exactly the lines for which
\* "the pattern matches" differs from invert_match, a last line without
\* terminator included; so the results for invert_match false and true share
\* no line and together hold every line of the input once.
C22_FindLinesPartition ==
    LinesFound =>
       /\ found_lines.val = Ok(SelectedLines(grep_file, pattern, invert_match))
       /\ Len(find_lines(grep_file, pattern, FALSE).val)
             + Len(find_lines(grep_file, pattern, TRUE).val) = Len(grep_file)

FilesFound == pc = "files_found"

\* path lies below the directory dir
Below(path, dir) == Len(path) > Len(dir) /\ SubSeq(path, 1, Len(dir)) = dir

\* the directories among the arguments
GivenDirs == {paths[i] : i \in {j \in 1..Len(paths) : is_dir(paths[j], fs)}}

\* the regular files below a directory given as argument
FilesBelowGiven ==
    {p \in fs : is_file(p, fs) /\ \E d \in GivenDirs : Below(p, d)}

\* without the recursive option a directory yields one error "<path> is a
\* directory", and a path that does not exist yields one error
OneErrorEach ==
    \A i \in 1..Len(paths) :
        LET res == find_files_in_path(paths[i], recursive, fs) IN
        /\ (is_dir(paths[i], fs) /\ ~recursive) =>
              res = <<Err(path_str(paths[i]) \o <<" is a directory">>)>>
        /\ paths[i] \notin fs => Len(res) = 1 /\ ~res[1].ok

\* C23: with the recursive option find_files returns every regular file
\* below a given directory exactly once, whatever the depth; without it a
\* directory yields exactly one error "<path> is a directory"; a path that
\* does not exist yields exactly one error.
C23_FindFilesOnce ==
    FilesFound =>
       /\ recursive => \A p \in FilesBelowGiven : Count(found_files.val, Ok(p)) = 1
       /\ OneErrorEach

----------------------------------------------------------------------------
(* Properties of uniqr *)

Processed == pc = "processed"

\* what two lines are compared by: the text without trailing white space (a
\* line that is no text equals no other line)
Trimmed(i) ==
    IF in_file[i].utf8 THEN <<"text", trim_end(in_file[i].text)>>
    ELSE <<"no text", i>>

\* the lines that begin a maximal run of equal lines
RunStarts == {i \in 1..Len(in_file) : i = 1 \/ Trimmed(i) # Trimmed(i - 1)}

\* the length of the run that begins at line i
RunLength(i) ==
    Cardinality({j \in i..Len(in_file) : \A k \in i..j : Trimmed(k) = Trimmed(i)})

\* the k-th run start
NthRunStart(k) ==
    CHOOSE i \in RunStarts : Cardinality({j \in RunStarts : j <= i}) = k

\* the line written for the run that begins at line i
RunOutput(i) ==
    IF show_count
    THEN pad_left(ToDecimal(RunLength(i)), 4) \o <<" ">> \o in_file[i].text
    ELSE in_file[i].text

\* C25: process_input writes one line for every maximal run of consecutive
\* lines equal after trimming trailing white space, the first line of the
\* run, in input order, with the count option prefixed by the length of the
\* run (at least 1, the lengths adding up to the number of input lines);
\* an empty input gives no output.
C25_OneLinePerRun ==
    Processed =>
       /\ Len(output.val) = Cardinality(RunStarts)
       /\ \A k \in 1..Cardinality(RunStarts) :
             output.val[k] = RunOutput(NthRunStart(k))

----------------------------------------------------------------------------
(* Properties of commr *)

\* the calls that classify the line a of file 1 (columns 1 and 3) and the
\* line b of file 2 (columns 2 and 3); lines are counted from 0
ClassifiedLine1(a) ==
    {k \in 1..Len(comm_log) : comm_log[k].col \in {1, 3} /\ comm_log[k].i1 = a}

ClassifiedLine2(b) ==
    {k \in 1..Len(comm_log) : comm_log[k].col \in {2, 3} /\ comm_log[k].i2 = b}

\* two lines are equal for the comparison in force
EqualLines(t1, t2) ==
    IF comm_config.val.insensitive THEN to_lowercase(t1) = to_lowercase(t2)
    ELSE t1 = t2

\* the indices stay within the inputs, every line consumed so far is
\* classified once and no other line is, and column 3 holds exactly the
\* lines consumed together with an equal line of the other file
MergeClassified ==
    comm_config.some =>
       /\ i1 <= Len(lines1)
       /\ i2 <= Len(lines2)
       /\ pc = "diffs_printed" => i1 = Len(lines1) /\ i2 = Len(lines2)
       /\ \A a \in 0..(Len(lines1) - 1) :
             Cardinality(ClassifiedLine1(a)) = IF a < i1 THEN 1 ELSE 0
       /\ \A b \in 0..(Len(lines2) - 1) :
             Cardinality(ClassifiedLine2(b)) = IF b < i2 THEN 1 ELSE 0
       /\ \A k \in 1..Len(comm_log) :
             comm_log[k].col = 3 =>
                /\ comm_log[k].i1 < Len(lines1)
                /\ comm_log[k].i2 < Len(lines2)
                /\ EqualLines(lines1[comm_log[k].i1 + 1], lines2[comm_log[k].i2 + 1])

\* an iteration advances i1, i2 or both by one; only the return advances none
MergeAdvances ==
    \/ i1' = i1 + 1 /\ i2' = i2
    \/ i1' = i1 /\ i2' = i2 + 1
    \/ i1' = i1 + 1 /\ i2' = i2 + 1
    \/ i1' = i1 /\ i2' = i2 /\ pc' = "diffs_printed"

\* C26: print_line_diffs terminates: every iteration advances i1, i2 or
\* both by one, the indices never exceed n1 and n2, the loop ends with
\* i1 = n1 and i2 = n2, and every line is classified exactly once, in column
\* 3 exactly when consumed together with an equal line of the other file.
C26_MergeTerminates ==
    /\ []MergeClassified
    /\ [][MergeAdvances]_vars
    /\ <>(pc = "diffs_printed")

C26_Witness ==
    /\ pc = "diffs_printed"
    /\ lines1 = <<(<<"a">>), (<<"b">>)>>
    /\ lines2 = <<(<<"A">>), (<<"b">>)>>
    /\ ~comm_config.val.insensitive
    /\ [k \in 1..Len(comm_log) |-> comm_log[k].col] = <<2, 1, 3>>

\* the input line a call of print_col1, print_col2 or print_col3 is about
OriginalLines(entry) ==
    CASE entry.col = 1 -> {lines1[entry.i1 + 1]}
      [] entry.col = 2 -> {lines2[entry.i2 + 1]}
      [] entry.col = 3 -> {lines1[entry.i1 + 1], lines2[entry.i2 + 1]}

\* the text ends with the line
EndsWith(text, ln) ==
    Len(text) >= Len(ln) /\ SubSeq(text, Len(text) - Len(ln) + 1, Len(text)) = ln

\* C27: with -i the case is ignored only when lines are compared: every line
\* printed, in any column and at any point of the merge, is the text of an
\* input line in its original case.
C27_OriginalCasePrinted ==
    \A k \in 1..Len(comm_log) :
        comm_log[k].out.some =>
            \E ln \in OriginalLines(comm_log[k]) : EndsWith(comm_log[k].out.val, ln)

----------------------------------------------------------------------------
(* Properties of wcr *)

\* none of -l, -w, -c, -m was given
NoCountFlag ==
    wc_args.some /\ ~wc_args.val.lines /\ ~wc_args.val.words
                 /\ ~wc_args.val.bytes /\ ~wc_args.val.chars

\* the counts of a report under the defaulting rule: lines, words, bytes
DefaultCounts(file_info) ==
    <<" ">> \o count_field(file_info.num_lines)
    \o <<" ">> \o count_field(file_info.num_words)
    \o <<" ">> \o count_field(file_info.num_bytes)

\* C28: invoked with none of -l, -w, -c, -m, every report of wcr (one per
\* file, and the total) shows the line count, the word count and the byte
\* count, as the defaulting rule of get_args prescribes; no report is empty
\* of counts.
C28_DefaultCounts ==
    NoCountFlag =>
       \A k \in 1..Len(wc_out) :
          /\ IsPrefix(DefaultCounts(wc_out[k].info), wc_out[k].text)
          /\ IsPrefix(compose_message(wc_out[k].info, get_args(wc_args.val)),
                      wc_out[k].text)

-----------------------------------------------------------------------------
(* Properties of fortuner's find_fortune_in_file *)

\* the number of lines of the file that have been read
FortuneReadCount ==
    IF fortune_idx > 0 /\ ~fortune_file.val[fortune_idx].utf8
    THEN fortune_idx - 1
    ELSE fortune_idx

\* the i-th line read
FortuneLineAt(i) == lines_item(fortune_file.val[i].text)

\* the lines read that are "%"
FortuneBoundaries == {e \in 1..FortuneReadCount : FortuneLineAt(e) = <<"%">>}

\* the first and the last line of the record of the i-th line; the last is 0
\* for a line after the last "%"
FortuneRecordFirst(i) ==
    LET before == {e \in FortuneBoundaries : e < i}
    IN  IF before = {} THEN 1
        ELSE (CHOOSE e \in before : \A d \in before : d <= e) + 1

FortuneRecordLast(i) ==
    LET from == {e \in FortuneBoundaries : e >= i}
    IN  IF from = {} THEN 0
        ELSE CHOOSE e \in from : \A d \in from : e <= d

\* the i-th line belongs to a complete record one of whose lines matches
FortuneSelected(i) ==
    /\ FortuneRecordLast(i) # 0
    /\ \E j \in FortuneRecordFirst(i)..FortuneRecordLast(i) :
          is_match(fortune_regex, FortuneLineAt(j))

\* the lines of the selected records, in the order of the file
FortuneExpected ==
    LET sel == SelectSeq([i \in 1..FortuneReadCount |-> i], FortuneSelected)
    IN  [k \in 1..Len(sel) |-> FortuneLineAt(sel[k])]

\* the lines read since the last "%"
FortuneOpenRecord ==
    LET first == FortuneRecordFirst(FortuneReadCount + 1)
    IN  [k \in 1..(FortuneReadCount + 1 - first) |-> FortuneLineAt(first + k - 1)]

\* C29: of the lines read, exactly the records (the lines up to and
\* including a line equal to "%") with a matching line of their own are
\* printed, in file order and with all their lines; the lines after the last
\* "%" are not printed; and between iterations the buffer holds the lines
\* since the last "%" and the flag tells whether one of them matched, so both
\* are reset at each record boundary.
C29_MatchingRecordsPrinted ==
    (pc \in {"fortune_lines", "fortune_returned"} /\ fortune_file # None) =>
        /\ fortune_out = FortuneExpected
        /\ pc = "fortune_lines" =>
              /\ fortune_record = FortuneOpenRecord
              /\ match_found =
                    (\E k \in 1..Len(fortune_record) :
                        is_match(fortune_regex, fortune_record[k]))

\* a file read to its end with a printed record, a dropped record and lines
\* after the last "%"
C29_Witness ==
    /\ pc = "fortune_returned"
    /\ fortune_result = Some(Ok(<<>>))
    /\ fortune_out # <<>>
    /\ \E e \in FortuneBoundaries : ~FortuneSelected(e)
    /\ FortuneReadCount \notin FortuneBoundaries
    /\ FortuneReadCount = Len(fortune_file.val)

====
